---- MODULE Spec2Model ----
(***************************************************************************)
(* A model of mentat's real-time core: the Module parameter / dirty-flush  *)
(* protocol with its mappings (src/mentat/module.py) and the tempo-aware   *)
(* Timer (src/mentat/timer.py).                                            *)
(*                                                                         *)
(* Parameter, Mapping (parameter.py), the Engine tick loop (engine.py) and *)
(* the submodule_method decorator (utils.py) are not part of the sources   *)
(* at hand; the few operators that stand for them follow the design        *)
(* document and are marked as such where they are defined.                 *)
(***************************************************************************)
EXTENDS Integers, Sequences, FiniteSets, TLC

None == "None"

\* no value: a default of None, nothing transmitted yet
NoValue == -1

\* a port that is not set (None; "not port" in send)
NoPort == 0

(***************************************************************************)
(* Bounds of the model.                                                    *)
(***************************************************************************)
\* messages that forced sets may leave on the outbound queue between ticks
MaxPending == 1
\* length of the outbound queue (a tick hands the queue to the transports)
MaxQueue == 5
\* the history counter of transform executions saturates here
MaxCalls == 3

(***************************************************************************)
(* The module tree after construction: the engine is the root, M is a      *)
(* module with its own port, S a submodule of M constructed without        *)
(* protocol and port and handed to M.add_submodule.                        *)
(***************************************************************************)
Modules == {"M", "S"}

parent_module(m) == IF m = "S" THEN "M" ELSE "engine"

submodules(m) == IF m = "M" THEN <<"S">> ELSE <<>>

\* add_submodule: a submodule without protocol / port takes its parent's
protocol(m) == "osc"

port(m) == 9000

(***************************************************************************)
(* The parameters the set-up adds with add_parameter: name -> owner,       *)
(* address, default.  All of them hold one dynamic value of type 'i'.      *)
(***************************************************************************)
ParamNames == {"u", "n", "x", "y"}

owner(p) == IF p \in {"u", "n"} THEN "M" ELSE "S"

\* n has no address: a computed value that is never transmitted
address(p) == IF p = "n" THEN None ELSE "/" \o p

default(p) == IF p = "x" THEN 0 ELSE NoValue

\* the add_parameter calls of the set-up, in order
SetUp == <<"u", "n", "x", "y">>

\* values passed to set() by scripts and routes
SetValues(p) == CASE p = "x" -> {1, 3} [] p = "n" -> {} [] OTHER -> {1}

\* parameters and values of the set(..., force_send=True) calls
Forced == {"x"}

ForceValues == {1}

\* parameters the scripts animate, and the value an animation step writes
Animated == {"x"}

AnimValues == {3}

(***************************************************************************)
(* Transform functions given to add_mapping.                               *)
(***************************************************************************)
Transform(f, v) == CASE f = "double" -> 2 * v
                     [] f = "half"   -> v \div 2   \* y/2 coerced by the 'i' tag
                     [] f = "flip"   -> IF v = 0 THEN 1 ELSE 0
                     [] f = "ident"  -> v
                     [] f = "clamp"  -> IF v > 2 THEN 2 ELSE v

\* the add_mapping(src, dest, transform, inverse) call of the scripts: one
\* of these, made once
MappingCalls ==
  { [owner |-> "S", src |-> <<"x">>, dest |-> <<"y">>,
     transform |-> "double", inverse |-> None],
    [owner |-> "S", src |-> <<"x">>, dest |-> <<"y">>,
     transform |-> "double", inverse |-> "half"],
    [owner |-> "S", src |-> <<"x">>, dest |-> <<"y">>,
     transform |-> "flip", inverse |-> "ident"],
    [owner |-> "M", src |-> <<"S", "x">>, dest |-> <<"S", "y">>,
     transform |-> "flip", inverse |-> "ident"],
    [owner |-> "M", src |-> <<"u">>, dest |-> <<"S", "x">>,
     transform |-> "ident", inverse |-> None] }

\* add_mapping('x', 'x', clamp): a mapping that corrects its own source
ClampCall ==
  [owner |-> "S", src |-> <<"x">>, dest |-> <<"x">>,
   transform |-> "clamp", inverse |-> None]

VARIABLES
  parameters,         \* module -> names of its parameters, in dict order
  value,              \* parameter -> current value (Parameter.args)
  last_sent,          \* parameter -> last transmitted value, or NoValue
  param_dirty,        \* parameter -> Parameter.dirty
  animate_running,    \* parameter -> Parameter.animate_running
  animations,         \* module -> Module.animations (list of names)
  mappings,           \* module -> Module.mappings (list of Mapping)
  dirty_parameters,   \* module -> Module.dirty_parameters (FIFO)
  module_dirty,       \* module -> Module.dirty
  dirty_modules,      \* Engine.dirty_modules (FIFO)
  message_queue,      \* Engine.message_queue (FIFO)
  events,             \* parameter_changed events dispatched in this tick
  pc,                 \* "idle", "drain" (in a tick) or "flush"
  current,            \* the module whose update_dirty_parameters runs
  flushed,            \* modules flushed in this tick
  deferred,           \* modules left for the next tick
  transform_calls,    \* history: module -> transform runs of each mapping
  mapped_src,         \* history: module -> source value each mapping saw
  param_log,          \* the parameter_added events and the errors of add_parameter
  flush_pre,          \* history: the state update_dirty_parameters began in
  drained,            \* history: the parameters the running flush took off its buffer
  raised,             \* the exception the last stop_animate call ended with, or None
  current_time,       \* Engine.current_time, in ms
  tempo,              \* Engine.tempo
  tempo_map,          \* Engine.tempo_map: <<time, tempo, cycle length>>
  timer,              \* the Timer of the scene
  scene,              \* "idle", or "waiting" in the loop of Timer.wait
  current_beat,       \* what get_current_beat returned, or NoValue
  origin,             \* history: start_time when the Timer was (re)set
  waited,             \* history: the sum of the durations of the waits since then
  steady,             \* history: no tempo change since then
  local,              \* the arguments and the local duration of the last wait call
  previous,           \* where the wait of the scene's previous run is, or "none"
  objects,            \* the Module objects constructed so far, the engine first
  log,                \* the entries the loggers of the modules have written
  module_events,      \* the module_added events dispatched
  sender,             \* history: the module whose send the queue holds
  midi_event,         \* the MIDI event handed to midi_to_osc
  osc,                \* what midi_to_osc returned
  midi_out,           \* what osc_to_midi returned for it
  midi_pc             \* "event", "osc" (midi_to_osc ran) or "midi"

vars == <<parameters, value, last_sent, param_dirty, animate_running,
          animations, mappings, dirty_parameters, module_dirty,
          dirty_modules, message_queue, events, pc, current, flushed,
          deferred, transform_calls, mapped_src, param_log, flush_pre, drained, raised,
          current_time, tempo, tempo_map, timer, scene, current_beat,
          origin, waited, steady, local, previous, objects, log, module_events, sender,
          midi_event, osc, midi_out, midi_pc>>

\* the clock, the tempo and the Timer: no handler of Module touches them
Clock == <<current_time, tempo, tempo_map, timer, scene, current_beat,
           origin, waited, steady, local, previous>>

\* the tree of Module objects the scripts build
Tree == <<objects, log, module_events, sender>>

\* the MIDI event under conversion
Midi == <<midi_event, osc, midi_out, midi_pc>>

(***************************************************************************)
(* The part of the state the handlers of Module read and write, as one     *)
(* record, so that a handler that calls other handlers is one function.    *)
(***************************************************************************)
Store == [parameters |-> parameters, value |-> value,
          last_sent |-> last_sent, param_dirty |-> param_dirty,
          animate_running |-> animate_running, animations |-> animations,
          mappings |-> mappings, dirty_parameters |-> dirty_parameters,
          module_dirty |-> module_dirty, dirty_modules |-> dirty_modules,
          message_queue |-> message_queue, events |-> events,
          transform_calls |-> transform_calls, mapped_src |-> mapped_src,
          param_log |-> param_log]

Becomes(st) ==
  /\ parameters' = st.parameters
  /\ value' = st.value
  /\ last_sent' = st.last_sent
  /\ param_dirty' = st.param_dirty
  /\ animate_running' = st.animate_running
  /\ animations' = st.animations
  /\ mappings' = st.mappings
  /\ dirty_parameters' = st.dirty_parameters
  /\ module_dirty' = st.module_dirty
  /\ dirty_modules' = st.dirty_modules
  /\ message_queue' = st.message_queue
  /\ events' = st.events
  /\ transform_calls' = st.transform_calls
  /\ mapped_src' = st.mapped_src
  /\ param_log' = st.param_log

Contains(seq, e) == \E i \in 1..Len(seq) : seq[i] = e

Count(seq, e) == Cardinality({i \in 1..Len(seq) : seq[i] = e})

Exists(st, p) == Contains(st.parameters[owner(p)], p)


(***************************************************************************)
(* Parameter and Mapping, after sections 4.1 and 4.2 of the design         *)
(* document.                                                               *)
(***************************************************************************)
\* Parameter.set returns whether the value differs from the prior value
parameter_set_changes(st, p, v) == st.value[p] # v

parameter_set(st, p, v) == [st EXCEPT !.value[p] = v]

\* Parameter.should_send: the address is set and the message arguments
\* differ from the last-transmitted snapshot
should_send(st, p) == address(p) # None /\ st.value[p] # st.last_sent[p]

set_last_sent(st, p) == [st EXCEPT !.last_sent[p] = st.value[p]]

stop_animation(st, p) == [st EXCEPT !.animate_running[p] = FALSE]

\* Mapping.match: the path equals the mapping's source address
match(mapping, path) == mapping.src = path

\* the parameter a path names, seen from module m (submodule_method)
RECURSIVE Resolve(_, _)
Resolve(m, path) ==
  IF Len(path) = 1
  THEN IF path[1] \in ParamNames /\ owner(path[1]) = m THEN path[1] ELSE None
  ELSE IF Contains(submodules(m), path[1])
       THEN Resolve(path[1], Tail(path))
       ELSE None

(***************************************************************************)
(* Module.send, Module.set_dirty and Module.set.                           *)
(***************************************************************************)
Message(proto, prt, addr, v) == <<proto, prt, addr, v>>

send(st, m, addr, v) ==
  LET own   == port(m)
      inh   == own = NoPort /\ parent_module(m) \in Modules
      proto == IF inh THEN protocol(parent_module(m)) ELSE protocol(m)
      prt   == IF inh THEN port(parent_module(m)) ELSE own
  IN IF prt # NoPort
     THEN [st EXCEPT !.message_queue = Append(@, Message(proto, prt, addr, v))]
     ELSE st

\* a set_dirty that enqueues the module whether it is dirty already or not
set_dirty_always(st, m) ==
  [st EXCEPT !.module_dirty[m] = TRUE, !.dirty_modules = Append(@, m)]

set_dirty(st, m) ==
  IF ~st.module_dirty[m]
  THEN [st EXCEPT !.module_dirty[m] = TRUE,
                  !.dirty_modules = Append(@, m)]
  ELSE st

\* a set that enqueues the parameter on every change, pending or not
set_enqueue_always(st, p, v, force_send, preserve_animation) ==
  IF ~Exists(st, p)
  THEN st
  ELSE LET m == owner(p)
           s1 == IF st.animate_running[p] /\ ~preserve_animation
                 THEN stop_animation(st, p)
                 ELSE st
       IN IF force_send /\ address(p) # None
          THEN set_last_sent(send(parameter_set(s1, p, v), m, address(p), v), p)
          ELSE IF parameter_set_changes(s1, p, v)
               THEN set_dirty([parameter_set(s1, p, v) EXCEPT
                                 !.param_dirty[p] = TRUE,
                                 !.dirty_parameters[m] = Append(@, p)], m)
               ELSE parameter_set(s1, p, v)

\* a set whose forced branch goes through the dirty buffer as well
set_force_dirties(st, p, v, force_send, preserve_animation) ==
  IF ~Exists(st, p)
  THEN st
  ELSE LET m == owner(p)
           s1 == IF st.animate_running[p] /\ ~preserve_animation
                 THEN stop_animation(st, p)
                 ELSE st
           s2 == IF force_send /\ address(p) # None
                 THEN set_last_sent(send(parameter_set(s1, p, v), m, address(p), v), p)
                 ELSE parameter_set(s1, p, v)
       IN IF (force_send \/ parameter_set_changes(s1, p, v)) /\ ~s1.param_dirty[p]
          THEN set_dirty([s2 EXCEPT !.param_dirty[p] = TRUE,
                                    !.dirty_parameters[m] = Append(@, p)], m)
          ELSE s2

set(st, p, v, force_send, preserve_animation) ==
  IF ~Exists(st, p)
  THEN st                                   \* logged, nothing else
  ELSE
    LET m  == owner(p)
        s1 == IF st.animate_running[p] /\ ~preserve_animation
              THEN stop_animation(st, p) ELSE st
    IN IF force_send /\ address(p) # None
       THEN LET s2 == parameter_set(s1, p, v)
                s3 == send(s2, m, address(p), s2.value[p])
            IN set_last_sent(s3, p)
       ELSE IF parameter_set_changes(s1, p, v) /\ ~s1.param_dirty[p]
            THEN set_dirty([parameter_set(s1, p, v) EXCEPT
                              !.param_dirty[p] = TRUE,
                              !.dirty_parameters[m] = Append(@, p)], m)
            ELSE parameter_set(s1, p, v)

(***************************************************************************)
(* Module.update_mapping and Module.check_mappings.                        *)
(***************************************************************************)
Bump(n) == IF n < MaxCalls THEN n + 1 ELSE n

\* an update_mapping that hands the source value over without the transform
update_mapping_untransformed(st, o, i) ==
  LET mapping == st.mappings[o][i]
      src  == Resolve(o, mapping.src)
      dest == Resolve(o, mapping.dest)
  IN IF mapping.locked
     THEN st
     ELSE LET s1 == [st EXCEPT !.mappings[o][i].locked = TRUE,
                               !.transform_calls[o][i] = Bump(@),
                               !.mapped_src[o][i] = st.value[src]]
              s2 == set(s1, dest, s1.value[src], FALSE, FALSE)
          IN IF ~s2.module_dirty[o]
             THEN [s2 EXCEPT !.mappings[o][i].locked = FALSE]
             ELSE s2

update_mapping(st, o, i) ==
  LET mapping == st.mappings[o][i]
      src     == Resolve(o, mapping.src)
      dest    == Resolve(o, mapping.dest)
  IN IF mapping.locked
     THEN st
     ELSE LET s1 == [st EXCEPT !.mappings[o][i].locked = TRUE,
                               !.transform_calls[o][i] = Bump(@),
                               !.mapped_src[o][i] = st.value[src]]
              val == Transform(mapping.transform, s1.value[src])
              s2 == set(s1, dest, val, FALSE, FALSE)
          IN IF ~s2.module_dirty[o]
             THEN [s2 EXCEPT !.mappings[o][i].locked = FALSE]
             ELSE s2

\* the loop over self.mappings, from the i-th mapping on
RECURSIVE MatchingFrom(_, _, _, _)
MatchingFrom(st, m, path, i) ==
  IF i > Len(st.mappings[m])
  THEN st
  ELSE MatchingFrom(IF match(st.mappings[m][i], path)
                    THEN update_mapping(st, m, i) ELSE st,
                    m, path, i + 1)

RECURSIVE check_mappings(_, _, _)
check_mappings(st, m, path) ==
  LET s1 == MatchingFrom(st, m, path, 1)
  IN IF parent_module(m) \in Modules
     THEN check_mappings(s1, parent_module(m), <<m>> \o path)
     ELSE s1              \* the engine owns no mapping here


(***************************************************************************)
(* Module.add_parameter, Module.reset, Module.add_mapping.                 *)
(***************************************************************************)
reset(st, p) ==
  IF Exists(st, p) /\ default(p) # NoValue
  THEN set(st, p, default(p), FALSE, FALSE)
  ELSE st

\* self.parameters[name] = Parameter(name, address, types, static_args, default)
NewParameter(st, p) ==
  [st EXCEPT !.parameters[owner(p)] = Append(@, p),
             !.value[p] = 0,
             !.last_sent[p] = NoValue,
             !.param_dirty[p] = FALSE,
             !.animate_running[p] = FALSE]

add_parameter(st, p) ==
  IF ~Exists(st, p)
  THEN [reset(NewParameter(st, p), p) EXCEPT
          !.param_log = Append(@, <<"parameter_added", owner(p), p>>)]
  ELSE [st EXCEPT !.param_log = Append(@, <<"error", owner(p), p>>)]

\* Module.remove_parameter for a name: the name leaves self.parameters and
\* self.animations; the Parameter object stays where else it is held
Removed(st, m, name) ==
  [st EXCEPT !.parameters[m] = SelectSeq(@, LAMBDA q : q # name),
             !.animations[m] = SelectSeq(@, LAMBDA q : q # name)]

\* "for name in list(self.parameters.keys()): self.remove_parameter(name)"
RECURSIVE RemovedFrom(_, _, _, _)
RemovedFrom(st, m, keys, i) ==
  IF i > Len(keys) THEN st ELSE RemovedFrom(Removed(st, m, keys[i]), m, keys, i + 1)

remove_parameter(st, m, name) ==
  IF name = "*"
  THEN RemovedFrom(st, m, st.parameters[m], 1)
  ELSE Removed(st, m, name)

NewMapping(src, dest, f) ==
  [src |-> src, dest |-> dest, transform |-> f, locked |-> FALSE]

\* every parameter of the mapping exists (get_parameter is not None)
Ready(st, o, i) ==
  /\ Resolve(o, st.mappings[o][i].src) # None
  /\ Resolve(o, st.mappings[o][i].dest) # None
  /\ Exists(st, Resolve(o, st.mappings[o][i].src))
  /\ Exists(st, Resolve(o, st.mappings[o][i].dest))

\* the value of the source a mapping that has not run yet starts from
Baseline(st, o, src) ==
  IF Resolve(o, src) # None /\ Exists(st, Resolve(o, src))
  THEN st.value[Resolve(o, src)] ELSE 0

\* self.mappings.append(Mapping(src, dest, transform))
Appended(st, o, src, dest, f) ==
  [st EXCEPT !.mappings[o] = Append(@, NewMapping(src, dest, f)),
             !.transform_calls[o] = Append(@, 0),
             !.mapped_src[o] = Append(@, Baseline(st, o, src))]

add_mapping(st, o, src, dest, f, inverse) ==
  LET s1 == Appended(st, o, src, dest, f)
      i  == Len(s1.mappings[o])
      s2 == IF inverse # None
            THEN LET t1 == Appended(s1, o, dest, src, inverse)
                     j  == Len(t1.mappings[o])
                 IN IF Ready(t1, o, j) THEN update_mapping(t1, o, j) ELSE t1
            ELSE s1
  IN IF Ready(s2, o, i) THEN update_mapping(s2, o, i) ELSE s2

(***************************************************************************)
(* Module.animate and Module.update_animations.  An animation step writes  *)
(* a value and may end the animation: out[p] is the step's outcome.        *)
(***************************************************************************)
AnimOutcomes == [v : AnimValues, done : BOOLEAN]

animate(st, p) ==
  IF Exists(st, p)
  THEN [st EXCEPT !.animate_running[p] = TRUE,
                  !.animations[owner(p)] =
                     IF Contains(@, p) THEN @ ELSE Append(@, p)]
  ELSE st

Remove(seq, e) ==
  LET i == CHOOSE k \in 1..Len(seq) : seq[k] = e /\ \A j \in 1..(k-1) : seq[j] # e
  IN SubSeq(seq, 1, i - 1) \o SubSeq(seq, i + 1, Len(seq))

\* one pass of "for name in self.animations", the list read by index
RECURSIVE AnimationsFrom(_, _, _, _)
AnimationsFrom(st, m, out, i) ==
  IF i > Len(st.animations[m])
  THEN st
  ELSE
    LET p == st.animations[m][i]
    IN IF st.animate_running[p]
       THEN LET changed == parameter_set_changes(st, p, out[p].v)
                s1 == [parameter_set(st, p, out[p].v) EXCEPT
                         !.animate_running[p] = ~out[p].done]
                s2 == IF changed /\ ~s1.param_dirty[p]
                      THEN set_dirty([s1 EXCEPT
                             !.param_dirty[p] = TRUE,
                             !.dirty_parameters[m] = Append(@, p)], m)
                      ELSE s1
            IN AnimationsFrom(s2, m, out, i + 1)
       ELSE AnimationsFrom([st EXCEPT !.animations[m] = Remove(@, p)],
                           m, out, i + 1)

RECURSIVE update_animations(_, _, _)
RECURSIVE SubAnimationsFrom(_, _, _, _)
SubAnimationsFrom(st, m, out, k) ==
  IF k > Len(submodules(m))
  THEN st
  ELSE SubAnimationsFrom(update_animations(st, submodules(m)[k], out),
                         m, out, k + 1)

update_animations(st, m, out) ==
  AnimationsFrom(SubAnimationsFrom(st, m, out, 1), m, out, 1)

(***************************************************************************)
(* Module.stop_animate.  With '*' the method asks each submodule for       *)
(* stop_animation('*'), a method Module does not have (stop_animation is a *)
(* method of Parameter): the call ends with an AttributeError at the first *)
(* submodule, before any animation is stopped.                             *)
(***************************************************************************)
\* "for name in self.animations: self.parameters[name].stop_animation()"
RECURSIVE StopFrom(_, _, _)
StopFrom(st, m, i) ==
  IF i > Len(st.animations[m])
  THEN st
  ELSE StopFrom(stop_animation(st, st.animations[m][i]), m, i + 1)

\* the store after the call, and the exception the call ended with
stop_animate(st, m, name) ==
  IF name = "*"
  THEN IF submodules(m) # <<>>
       THEN [store |-> st, raised |-> "AttributeError"]
       ELSE [store |-> StopFrom(st, m, 1), raised |-> None]
  ELSE IF Contains(st.animations[m], name)
       THEN [store |-> stop_animation(st, name), raised |-> None]
       ELSE [store |-> st, raised |-> None]

(***************************************************************************)
(* Module.get_state and Module.set_state.                                  *)
(***************************************************************************)
RECURSIVE get_state(_, _)
RECURSIVE SubStatesFrom(_, _, _)
SubStatesFrom(st, m, k) ==
  IF k > Len(submodules(m))
  THEN <<>>
  ELSE LET name == submodules(m)[k]
           sstate == get_state(st, name)
       IN [x \in 1..Len(sstate) |-> <<<<name>> \o sstate[x][1], sstate[x][2]>>]
          \o SubStatesFrom(st, m, k + 1)

get_state(st, m) ==
  [x \in 1..Len(st.parameters[m]) |->
      <<<<st.parameters[m][x]>>, st.value[st.parameters[m][x]]>>]
  \o SubStatesFrom(st, m, 1)

\* a set_state that drops force_send
RECURSIVE set_state_unforced(_, _, _, _)
set_state_unforced(st, m, state, force_send) ==
  IF state = <<>>
  THEN st
  ELSE set_state_unforced(set(st, Resolve(m, state[1][1]), state[1][2],
                              FALSE, FALSE),
                          m, Tail(state), force_send)

RECURSIVE set_state(_, _, _, _)
set_state(st, m, state, force_send) ==
  IF state = <<>>
  THEN st
  ELSE set_state(set(st, Resolve(m, state[1][1]), state[1][2],
                     force_send, FALSE),
                 m, Tail(state), force_send)


(***************************************************************************)
(* The tree of modules as the scripts build it: Module.__init__,           *)
(* Module.add_submodule and Module.send on Module objects.  An object is   *)
(* its index in the sequence of the objects constructed; the engine, the   *)
(* root, is constructed first.                                             *)
(***************************************************************************)
\* no module: a parent_module of None
NoModule == 0

\* the engine is the first Module constructed
EngineId == 1

\* modules the scripts construct, and add_submodule calls they make
MaxModules == 2

MaxAdds == 1

ModuleNames == {"a", "b"}

\* the protocol and port arguments of the constructor
PortArgs == {<<None, NoPort>>, <<"osc", 9000>>}

\* the port the engine listens on, if any
EnginePorts == {NoPort, 8000}

\* the while loop of __init__: the names above parent, then path
RECURSIVE PathFrom(_, _, _)
PathFrom(objs, parent, path) ==
  IF parent = NoModule
  THEN path
  ELSE PathFrom(objs, objs[parent].parent_module,
                <<objs[parent].name>> \o path)

\* Module.__init__: a module without parent is a child of the engine
NewModule(objs, name, proto, prt, parent) ==
  LET par == IF parent = NoModule /\ objs # <<>> THEN EngineId ELSE parent
  IN [name |-> name, parent_module |-> par, protocol |-> proto, port |-> prt,
      module_path |-> PathFrom(objs, par, <<name>>), submodules |-> <<>>]

\* d[k] = v on a dict kept as the sequence of its <<key, value>> pairs
DictSet(d, k, v) ==
  IF \E i \in 1..Len(d) : d[i][1] = k
  THEN [i \in 1..Len(d) |-> IF d[i][1] = k THEN <<k, v>> ELSE d[i]]
  ELSE Append(d, <<k, v>>)

TreeStore == [objects |-> objects, log |-> log, module_events |-> module_events]

\* an add_submodule that turns a module with another parent down
add_submodule_rejecting(t, self, module) ==
  IF t.objects[module].parent_module # self
  THEN [t EXCEPT !.log = Append(@, <<"critical", self, module>>)]
  ELSE LET o  == t.objects
           o1 == [o EXCEPT ![self].submodules = DictSet(@, o[module].name, module)]
           o2 == IF o1[module].protocol = None
                 THEN [o1 EXCEPT ![module].protocol = o1[self].protocol] ELSE o1
           o3 == IF o2[module].port = NoPort
                 THEN [o2 EXCEPT ![module].port = o2[self].port] ELSE o2
       IN [t EXCEPT !.objects = o3,
                    !.module_events = Append(@, <<"module_added", self, module>>)]

\* Module.add_submodule, for one module
add_submodule(t, self, module) ==
  LET o  == t.objects
      lg == IF o[module].parent_module # self
            THEN Append(t.log, <<"critical", self, module>>)
            ELSE t.log
      o1 == [o EXCEPT ![self].submodules = DictSet(@, o[module].name, module)]
      o2 == IF o1[module].protocol = None
            THEN [o1 EXCEPT ![module].protocol = o1[self].protocol] ELSE o1
      o3 == IF o2[module].port = NoPort
            THEN [o2 EXCEPT ![module].port = o2[self].port] ELSE o2
      o4 == [o3 EXCEPT ![module].parent_module = self]
  IN [objects |-> o4, log |-> lg,
      module_events |-> Append(t.module_events, <<"module_added", self, module>>)]

\* Module.send on a Module object: the queue after the call
send_from(objs, queue, m, addr, v) ==
  LET inh   == objs[m].port = NoPort /\ objs[m].parent_module # NoModule
      proto == IF inh THEN objs[objs[m].parent_module].protocol
                      ELSE objs[m].protocol
      prt   == IF inh THEN objs[objs[m].parent_module].port ELSE objs[m].port
  IN IF prt # NoPort
     THEN Append(queue, Message(proto, prt, addr, v))
     ELSE queue

\* m and the modules above it
RECURSIVE Ancestors(_, _)
Ancestors(objs, m) ==
  IF m = NoModule THEN {} ELSE {m} \cup Ancestors(objs, objs[m].parent_module)


(***************************************************************************)
(* midi.py: the conversion of ALSA sequencer events to OSC messages and    *)
(* back.  An event is its type and the dict of get_data / set_data, a      *)
(* function of the keys; an OSC message is an address and its arguments.   *)
(***************************************************************************)
MIDI_TO_OSC ==
  [t \in {"SEQ_EVENT_NOTEON", "SEQ_EVENT_NOTEOFF", "SEQ_EVENT_CONTROLLER",
          "SEQ_EVENT_PGMCHANGE", "SEQ_EVENT_PITCHBEND", "SEQ_EVENT_SYSEX",
          "SEQ_EVENT_START", "SEQ_EVENT_STOP"} |->
     CASE t = "SEQ_EVENT_NOTEON"     -> "/note_on"
       [] t = "SEQ_EVENT_NOTEOFF"    -> "/note_off"
       [] t = "SEQ_EVENT_CONTROLLER" -> "/control_change"
       [] t = "SEQ_EVENT_PGMCHANGE"  -> "/program_change"
       [] t = "SEQ_EVENT_PITCHBEND"  -> "/pitch_bend"
       [] t = "SEQ_EVENT_SYSEX"      -> "/sysex"
       [] t = "SEQ_EVENT_START"      -> "/start"
       [] t = "SEQ_EVENT_STOP"       -> "/stop"]

OSC_TO_MIDI ==
  [a \in {"/note_on", "/note_off", "/control_change", "/program_change",
          "/pitch_bend", "/sysex", "/start", "/stop"} |->
     CASE a = "/note_on"        -> "SEQ_EVENT_NOTEON"
       [] a = "/note_off"       -> "SEQ_EVENT_NOTEOFF"
       [] a = "/control_change" -> "SEQ_EVENT_CONTROLLER"
       [] a = "/program_change" -> "SEQ_EVENT_PGMCHANGE"
       [] a = "/pitch_bend"     -> "SEQ_EVENT_PITCHBEND"
       [] a = "/sysex"          -> "SEQ_EVENT_SYSEX"
       [] a = "/start"          -> "SEQ_EVENT_START"
       [] a = "/stop"           -> "SEQ_EVENT_STOP"]

\* a return value of None
NoOsc == [address |-> None, args |-> <<>>]

NoEvent == [type |-> None, data |-> <<>>]

\* a midi_to_osc that hands on the velocity of a note-off
midi_to_osc_release_velocity(event) ==
  LET mtype == event.type
      data  == event.data
  IN IF mtype \notin DOMAIN MIDI_TO_OSC
     THEN NoOsc
     ELSE [address |-> MIDI_TO_OSC[mtype],
           args |->
             CASE mtype \in {"SEQ_EVENT_NOTEON", "SEQ_EVENT_NOTEOFF"} ->
                    <<data["note.channel"], data["note.note"],
                      data["note.velocity"]>>
               [] mtype \in {"SEQ_EVENT_PITCHBEND", "SEQ_EVENT_PGMCHANGE"} ->
                    <<data["control.channel"], data["control.value"]>>
               [] mtype = "SEQ_EVENT_SYSEX" -> data["ext"]
               [] mtype = "SEQ_EVENT_CONTROLLER" ->
                    <<data["control.channel"], data["control.param"],
                      data["control.value"]>>
               [] OTHER -> <<>>]

midi_to_osc(event) ==
  LET mtype == event.type
      data  == event.data
  IN IF mtype \notin DOMAIN MIDI_TO_OSC
     THEN NoOsc
     ELSE [address |-> MIDI_TO_OSC[mtype],
           args |->
             CASE mtype = "SEQ_EVENT_NOTEON" ->
                    <<data["note.channel"], data["note.note"],
                      data["note.velocity"]>>
               [] mtype = "SEQ_EVENT_NOTEOFF" ->
                    <<data["note.channel"], data["note.note"], 0>>
               [] mtype \in {"SEQ_EVENT_PITCHBEND", "SEQ_EVENT_PGMCHANGE"} ->
                    <<data["control.channel"], data["control.value"]>>
               [] mtype = "SEQ_EVENT_SYSEX" -> data["ext"]
               [] mtype = "SEQ_EVENT_CONTROLLER" ->
                    <<data["control.channel"], data["control.param"],
                      data["control.value"]>>
               [] OTHER -> <<>>]

\* osc_to_midi, for arguments that are plain integers: the event built,
\* with the dict handed to set_data
osc_to_midi(addr, args) ==
  IF addr \notin DOMAIN OSC_TO_MIDI
  THEN NoEvent
  ELSE LET mtype == OSC_TO_MIDI[addr]
       IN [type |-> mtype,
           data |->
             CASE mtype = "SEQ_EVENT_NOTEON" ->
                    ("note.channel" :> args[1] @@ "note.note" :> args[2]
                       @@ "note.velocity" :> args[3])
               [] mtype = "SEQ_EVENT_NOTEOFF" ->
                    ("note.channel" :> args[1] @@ "note.note" :> args[2])
               [] mtype \in {"SEQ_EVENT_PITCHBEND", "SEQ_EVENT_PGMCHANGE"} ->
                    ("control.channel" :> args[1] @@ "control.value" :> args[2])
               [] mtype = "SEQ_EVENT_SYSEX" -> ("ext" :> args)
               [] mtype = "SEQ_EVENT_CONTROLLER" ->
                    ("control.channel" :> args[1] @@ "control.param" :> args[2]
                       @@ "control.value" :> args[3])
               [] OTHER -> <<>>]

\* the events the sequencer port delivers
Channels == {0, 1, 15}

Notes == {0, 60, 127}

Velocities == {0, 100, 127}

NoteEvents ==
  {[type |-> t,
    data |-> ("note.channel" :> c @@ "note.note" :> n @@ "note.velocity" :> v)] :
     t \in {"SEQ_EVENT_NOTEON", "SEQ_EVENT_NOTEOFF", "SEQ_EVENT_KEYPRESS"},
     c \in Channels, n \in Notes, v \in Velocities}

ControlEvents ==
  {[type |-> t,
    data |-> ("control.channel" :> c @@ "control.param" :> n
                @@ "control.value" :> v)] :
     t \in {"SEQ_EVENT_CONTROLLER", "SEQ_EVENT_PGMCHANGE",
            "SEQ_EVENT_PITCHBEND"},
     c \in Channels, n \in Notes, v \in Velocities}

OtherEvents ==
  {[type |-> "SEQ_EVENT_SYSEX", data |-> ("ext" :> <<240, 1, 247>>)],
   [type |-> "SEQ_EVENT_START", data |-> <<>>],
   [type |-> "SEQ_EVENT_STOP", data |-> <<>>],
   [type |-> "SEQ_EVENT_CLOCK", data |-> <<>>]}

MidiEvents == NoteEvents \cup ControlEvents \cup OtherEvents


(***************************************************************************)
(* Floats.  The beats of get_current_beat are Python floats: a float is    *)
(* m * 2^e with m of at most Precision bits, given as the sequence of the  *)
(* bits of m (first the highest) and e, and every operation returns the    *)
(* float nearest to the exact result, ties to even.                        *)
(***************************************************************************)
\* a float has 53 significant bits
Precision == 53
\* bits a dividend is extended by, so that the quotient has more than
\* Precision bits ahead of the remainder
DivShift == 80
\* a long number is handled in digits of LimbBits bits
LimbBits == 10
Limb == 1024

RECURSIVE Bits(_)
Bits(n) == IF n = 0 THEN <<>> ELSE Append(Bits(n \div 2), n % 2)

RECURSIVE BitsValue(_)
BitsValue(b) ==
  IF b = <<>> THEN 0 ELSE 2 * BitsValue(SubSeq(b, 1, Len(b) - 1)) + b[Len(b)]

Zeros(k) == [i \in 1..k |-> 0]

\* without the leading zeros
Strip(b) ==
  IF \A i \in 1..Len(b) : b[i] = 0
  THEN <<>>
  ELSE SubSeq(b, CHOOSE i \in 1..Len(b) :
                    b[i] = 1 /\ \A j \in 1..(i - 1) : b[j] = 0,
              Len(b))

\* a long number is handled in digits of LimbBits bits
ToLimbs(b) ==
  LET p == Zeros((LimbBits - (Len(b) % LimbBits)) % LimbBits) \o b
  IN [j \in 1..(Len(p) \div LimbBits) |->
        BitsValue(SubSeq(p, LimbBits * (j - 1) + 1, LimbBits * j))]

FromLimbs(l) ==
  Strip([i \in 1..(LimbBits * Len(l)) |->
           (l[(i - 1) \div LimbBits + 1]
              \div 2^(LimbBits - 1 - ((i - 1) % LimbBits))) % 2])

\* a + b, in digits
RECURSIVE AddLimbs(_, _, _)
AddLimbs(a, b, carry) ==
  IF a = <<>> /\ b = <<>>
  THEN IF carry = 0 THEN <<>> ELSE <<carry>>
  ELSE LET x == IF a = <<>> THEN 0 ELSE a[Len(a)]
           y == IF b = <<>> THEN 0 ELSE b[Len(b)]
           s == x + y + carry
       IN Append(AddLimbs(IF a = <<>> THEN a ELSE SubSeq(a, 1, Len(a) - 1),
                          IF b = <<>> THEN b ELSE SubSeq(b, 1, Len(b) - 1),
                          s \div Limb),
                 (s % Limb))

AddBits(a, b) == FromLimbs(AddLimbs(ToLimbs(a), ToLimbs(b), 0))

Inc(b) == AddBits(b, <<1>>)

\* l * k in digits, for k below 2^20
RECURSIVE MulLimbs(_, _, _)
MulLimbs(l, k, carry) ==
  IF l = <<>>
  THEN ToLimbs(Bits(carry))
  ELSE LET s == l[Len(l)] * k + carry
       IN Append(MulLimbs(SubSeq(l, 1, Len(l) - 1), k, s \div Limb), s % Limb)

MulBits(b, k) == FromLimbs(MulLimbs(ToLimbs(b), k, 0))

\* quotient and remainder of l by d in digits, for d below 2^21
RECURSIVE DivLimbs(_, _, _, _, _)
DivLimbs(l, d, j, q, r) ==
  IF j > Len(l)
  THEN [q |-> FromLimbs(q), r |-> r]
  ELSE LET t == r * Limb + l[j]
       IN DivLimbs(l, d, j + 1, Append(q, t \div d), t % d)

\* d = Odd(d) * 2^Twos(d)
RECURSIVE Twos(_)
Twos(d) == IF d % 2 = 0 THEN 1 + Twos(d \div 2) ELSE 0
Odd(d) == d \div 2^Twos(d)

AnyBit(b, from) == \E i \in from..Len(b) : b[i] = 1

\* the float nearest to (b + a fraction, present iff sticky) * 2^e,
\* ties to even
Round(b, sticky, e) ==
  IF Len(b) <= Precision
  THEN [m |-> b, e |-> e]
  ELSE LET top  == SubSeq(b, 1, Precision)
           half == b[Precision + 1] = 1
           rest == sticky \/ AnyBit(b, Precision + 2)
           up   == half /\ (rest \/ top[Precision] = 1)
           m    == IF up THEN Inc(top) ELSE top
           k    == Len(b) - Precision
       IN IF Len(m) > Precision
          THEN [m |-> SubSeq(m, 1, Precision), e |-> e + k + 1]
          ELSE [m |-> m, e |-> e + k]

Float(n) == [m |-> Bits(n), e |-> 0]

\* x / d
FloatDiv(x, d) ==
  IF x.m = <<>> THEN x
  ELSE LET qr == DivLimbs(ToLimbs(x.m \o Zeros(DivShift)), Odd(d), 1, <<>>, 0)
       IN Round(qr.q, qr.r # 0, x.e - DivShift - Twos(d))

\* x * k
FloatMul(x, k) ==
  IF x.m = <<>> THEN x ELSE Round(MulBits(x.m, k), FALSE, x.e)

\* x + y
FloatAdd(x, y) ==
  IF x.m = <<>> THEN y
  ELSE IF y.m = <<>> THEN x
  ELSE LET e == IF x.e < y.e THEN x.e ELSE y.e
       IN Round(AddBits(x.m \o Zeros(x.e - e), y.m \o Zeros(y.e - e)),
                FALSE, e)

\* int(x)
FloatInt(x) ==
  IF x.e >= 0
  THEN BitsValue(x.m \o Zeros(x.e))
  ELSE IF Len(x.m) + x.e <= 0 THEN 0
       ELSE BitsValue(SubSeq(x.m, 1, Len(x.m) + x.e))

(***************************************************************************)
(* Timer.  The clock of the model counts milliseconds: a second, which is  *)
(* 1000000000 ns in the code, is Second units, and a unit is NsPerMs ns.   *)
(* The tempos and the durations of the waits are such that the quotients   *)
(* of update_tempo and wait are whole numbers of ms, which the floats of   *)
(* the code represent exactly.                                             *)
(***************************************************************************)
NsPerMs == 1000000
Second == 1000
\* one period of the main loop (MAINLOOP_PERIOD_NS), in ms
MAINLOOP_PERIOD_NS == 1
\* Engine.cycle_length, in beats
cycle_length == 4

\* seconds the clock of the model runs for
MaxSeconds == 3
MaxBeatSeconds == 20
\* entries of the tempo map (the first one is written at start)
MaxTempoMap == 3
MaxBeatMap == 2

Tempos == {60, 120}
BeatTempos == {60, 120, 150}
ClockSteps == {500}
BeatSteps == {400}
WaitCalls == {<<1, "beats">>, <<4, "beats">>, <<1, "seconds">>,
              <<500000000, "ns">>, <<1, "minutes">>}

\* no wait call was made
NoCall == [duration |-> 0, mode |-> None, arg |-> 0, called |-> 0]

\* Timer.__init__
Timer(engine_time, engine_tempo) ==
  [start_time |-> engine_time, tempo |-> engine_tempo,
   end_time |-> engine_time, is_beat_waiting |-> FALSE]

\* Timer.reset
timer_reset(t, engine_time, engine_tempo) ==
  [t EXCEPT !.start_time = engine_time, !.tempo = engine_tempo,
            !.end_time = engine_time, !.is_beat_waiting = FALSE]

\* an update_tempo that stretches the remaining time by the wrong ratio
update_tempo_inverted(t, engine_time, new_tempo) ==
  IF t.is_beat_waiting
  THEN LET remaining_time == t.end_time - engine_time
       IN [t EXCEPT !.end_time = engine_time
                                   + (remaining_time * new_tempo) \div t.tempo,
                    !.tempo = new_tempo]
  ELSE [t EXCEPT !.tempo = new_tempo]

\* Timer.update_tempo: remaining_time / (new_tempo / self.tempo)
update_tempo(t, engine_time, new_tempo) ==
  IF t.is_beat_waiting
  THEN LET remaining_time == t.end_time - engine_time
       IN [t EXCEPT !.end_time = engine_time
                                   + (remaining_time * t.tempo) \div new_tempo,
                    !.tempo = new_tempo]
  ELSE [t EXCEPT !.tempo = new_tempo]

\* mode[0] == 'b', mode[0] == 's'
IsBeats(mode) == mode \in {"b", "beat", "beats"}
IsSeconds(mode) == mode \in {"s", "second", "seconds"}
Recognized(mode) == IsBeats(mode) \/ IsSeconds(mode) \/ mode = "ns"

\* the duration of a wait, in units of the clock
Duration(t, duration, mode) ==
  CASE IsBeats(mode)   -> (duration * 60 * Second) \div t.tempo
    [] IsSeconds(mode) -> duration * Second
    [] OTHER           -> duration \div NsPerMs

\* Timer.wait, up to its polling loop
wait(t, duration, mode) ==
  IF ~Recognized(mode)
  THEN t
  ELSE [t EXCEPT !.end_time = t.start_time + Duration(t, duration, mode),
                 !.is_beat_waiting = IsBeats(mode) \/ @]

\* a test of the polling loop that gives up a second before the deadline
wait_blocked_early(t, engine_time) == engine_time < t.end_time - Second

\* the test of the polling loop
wait_blocked(t, engine_time) == engine_time < t.end_time - MAINLOOP_PERIOD_NS

\* a return from wait that takes the time of the clock as the new start
wait_return_late(t, engine_time) ==
  [t EXCEPT !.is_beat_waiting = FALSE, !.start_time = engine_time]

\* Timer.wait, after its polling loop
wait_return(t, engine_time) ==
  [t EXCEPT !.is_beat_waiting = FALSE, !.start_time = t.end_time]

\* Timer.wait statement by statement, for a scene that runs in a thread of
\* its own: "self.end_time = self.start_time + duration"
wait_end(t, duration) == [t EXCEPT !.end_time = t.start_time + duration]

\* "if mode[0] == 'b': self.is_beat_waiting = True"
wait_beat(t, mode) ==
  IF IsBeats(mode) THEN [t EXCEPT !.is_beat_waiting = TRUE] ELSE t

\* "self.is_beat_waiting = False"
wait_clear(t) == [t EXCEPT !.is_beat_waiting = FALSE]

\* "self.start_time = self.end_time"
wait_rebase(t) == [t EXCEPT !.start_time = t.end_time]

\* Timer.get_current_beat
RECURSIVE BeatsFrom(_, _, _, _)
BeatsFrom(map, engine_time, i, beats) ==
  IF i > Len(map)
  THEN beats
  ELSE LET elapsed_time == IF i = Len(map)
                           THEN engine_time - map[i][1]
                           ELSE map[i + 1][1] - map[i][1]
           ns == [m |-> MulBits(Bits(elapsed_time), NsPerMs), e |-> 0]
           elapsed_beats ==
             FloatMul(FloatDiv(FloatDiv(ns, 1000000000), 60), map[i][2])
       IN BeatsFrom(map, engine_time, i + 1, FloatAdd(beats, elapsed_beats))

\* a get_current_beat that counts from the last entry of the tempo map
get_current_beat_restarting(map, engine_time) ==
  FloatInt(BeatsFrom(map, engine_time, Len(map), Float(0)))

get_current_beat(map, engine_time) ==
  FloatInt(BeatsFrom(map, engine_time, 1, Float(0)))

\* Timer.get_current_cycle
RECURSIVE CyclesFrom(_, _, _, _)
CyclesFrom(map, engine_time, i, cycles) ==
  IF i > Len(map)
  THEN cycles
  ELSE LET elapsed_time == IF i = Len(map)
                           THEN engine_time - map[i][1]
                           ELSE map[i + 1][1] - map[i][1]
           ns == [m |-> MulBits(Bits(elapsed_time), NsPerMs), e |-> 0]
           elapsed_beats ==
             FloatMul(FloatDiv(FloatDiv(ns, 1000000000), 60), map[i][2])
       IN CyclesFrom(map, engine_time, i + 1,
                     FloatAdd(cycles, FloatDiv(elapsed_beats, map[i][3])))

get_current_cycle(map, engine_time) ==
  FloatInt(CyclesFrom(map, engine_time, 1, Float(0)))

(***************************************************************************)
(* The state after construction: no parameter, no mapping, nothing dirty.  *)
(***************************************************************************)
NoFlush == [queue |-> <<>>, value |-> [p \in ParamNames |-> 0],
            last_sent |-> [p \in ParamNames |-> NoValue], sent |-> 0,
            locked |-> {}]

Empty ==
  [parameters |-> [m \in Modules |-> <<>>],
   value |-> [p \in ParamNames |-> 0],
   last_sent |-> [p \in ParamNames |-> NoValue],
   param_dirty |-> [p \in ParamNames |-> FALSE],
   animate_running |-> [p \in ParamNames |-> FALSE],
   animations |-> [m \in Modules |-> <<>>],
   mappings |-> [m \in Modules |-> <<>>],
   dirty_parameters |-> [m \in Modules |-> <<>>],
   module_dirty |-> [m \in Modules |-> FALSE],
   dirty_modules |-> <<>>,
   message_queue |-> <<>>,
   events |-> <<>>,
   transform_calls |-> [m \in Modules |-> <<>>],
   mapped_src |-> [m \in Modules |-> <<>>],
   param_log |-> <<>>]

RECURSIVE AddedFrom(_, _)
AddedFrom(st, k) ==
  IF k > Len(SetUp) THEN st ELSE AddedFrom(add_parameter(st, SetUp[k]), k + 1)

ModuleInit ==
  /\ LET st == AddedFrom(Empty, 1)
     IN /\ parameters = st.parameters
        /\ value = st.value
        /\ last_sent = st.last_sent
        /\ param_dirty = st.param_dirty
        /\ animate_running = st.animate_running
        /\ animations = st.animations
        /\ mappings = st.mappings
        /\ dirty_parameters = st.dirty_parameters
        /\ module_dirty = st.module_dirty
        /\ dirty_modules = st.dirty_modules
        /\ message_queue = st.message_queue
        /\ events = st.events
        /\ transform_calls = st.transform_calls
        /\ mapped_src = st.mapped_src
        /\ param_log = st.param_log
  /\ pc = "idle"
  /\ current = None
  /\ flushed = {}
  /\ deferred = <<>>
  /\ flush_pre = NoFlush
  /\ drained = {}
  /\ raised = None

\* the engine starts its clock and the scene gets its Timer
ClockInit(t0) ==
  /\ current_time = 0
  /\ tempo = t0
  /\ tempo_map = << <<0, t0, cycle_length>> >>
  /\ timer = Timer(0, t0)
  /\ scene = "idle"
  /\ current_beat = NoValue
  /\ origin = 0
  /\ waited = 0
  /\ steady = TRUE
  /\ local = NoCall
  /\ previous = "none"

\* the engine is constructed before any module
TreeInit(engine_port) ==
  /\ objects = <<[NewModule(<<>>, "engine", "osc", NoPort, NoModule)
                    EXCEPT !.port = engine_port]>>
  /\ log = <<>>
  /\ module_events = <<>>
  /\ sender = NoModule

\* an event has come in from the sequencer port
MidiInit(event) ==
  /\ midi_event = event
  /\ osc = NoOsc
  /\ midi_out = NoEvent
  /\ midi_pc = "event"

Init == ModuleInit /\ ClockInit(120) /\ TreeInit(8000) /\ MidiInit(NoEvent)

Engine == <<pc, current, flushed, deferred, flush_pre>>

\* what the properties keep of the calls made
Calls == <<drained, raised>>

(***************************************************************************)
(* Calls made by scripts and routes on the main thread, between ticks.     *)
(***************************************************************************)
AddMapping(c) ==
  /\ pc = "idle"
  /\ \A m \in Modules : mappings[m] = <<>>
  /\ Becomes(add_mapping(Store, c.owner, c.src, c.dest, c.transform, c.inverse))
  /\ UNCHANGED <<Engine, Calls, Clock, Tree, Midi>>

Set(p, v, preserve_animation) ==
  /\ pc = "idle"
  /\ Exists(Store, p)
  /\ Becomes(set(Store, p, v, FALSE, preserve_animation))
  /\ UNCHANGED <<Engine, Calls, Clock, Tree, Midi>>

SetForce(p, v) ==
  /\ pc = "idle"
  /\ Exists(Store, p)
  /\ Len(message_queue) < MaxPending
  /\ Becomes(set(Store, p, v, TRUE, FALSE))
  /\ UNCHANGED <<Engine, Calls, Clock, Tree, Midi>>

Reset(p) ==
  /\ pc = "idle"
  /\ Exists(Store, p)
  /\ Becomes(reset(Store, p))
  /\ UNCHANGED <<Engine, Calls, Clock, Tree, Midi>>

Animate(p) ==
  /\ pc = "idle"
  /\ Exists(Store, p)
  /\ Becomes(animate(Store, p))
  /\ UNCHANGED <<Engine, Calls, Clock, Tree, Midi>>

\* the engine's animation pass on a module that has active animations
UpdateAnimations(m, out) ==
  /\ pc = "idle"
  /\ animations[m] # <<>>
  /\ Becomes(update_animations(Store, m, out))
  /\ UNCHANGED <<Engine, Calls, Clock, Tree, Midi>>

\* set_state(get_state(), force_send); send_state() is the forced one
SetState(m, force_send) ==
  /\ pc = "idle"
  /\ parameters[m] # <<>>
  /\ force_send => message_queue = <<>>
  /\ Becomes(set_state(Store, m, get_state(Store, m), force_send))
  /\ UNCHANGED <<Engine, Calls, Clock, Tree, Midi>>

(***************************************************************************)
(* The engine's tick: drain the dirty modules, hand the messages over.     *)
(* A module is flushed at most once in a tick.                             *)
(***************************************************************************)
ZeroCalls == [m \in Modules |-> [i \in 1..Len(mappings[m]) |-> 0]]

TickBegin ==
  /\ pc = "idle"
  /\ dirty_modules # <<>>
  /\ pc' = "drain"
  /\ flushed' = {}
  /\ transform_calls' = ZeroCalls
  /\ events' = <<>>
  /\ UNCHANGED <<Calls, Clock, Tree, Midi>>
  /\ UNCHANGED <<parameters, value, last_sent, param_dirty, animate_running,
                 animations, mappings, dirty_parameters, module_dirty,
                 dirty_modules, message_queue, current, deferred,
                 mapped_src, param_log, flush_pre>>

FlushBegin ==
  /\ pc = "drain"
  /\ dirty_modules # <<>>
  /\ Head(dirty_modules) \notin flushed
  /\ pc' = "flush"
  /\ current' = Head(dirty_modules)
  /\ dirty_modules' = Tail(dirty_modules)
  /\ flush_pre' = [queue |-> dirty_parameters[Head(dirty_modules)],
                   value |-> value, last_sent |-> last_sent,
                   sent |-> Len(message_queue),
                   locked |-> {k \in Modules \X (1..2) :
                                 /\ k[2] <= Len(mappings[k[1]])
                                 /\ mappings[k[1]][k[2]].locked}]
  /\ drained' = {}
  /\ UNCHANGED <<raised, Clock, Tree, Midi>>
  /\ UNCHANGED <<parameters, value, last_sent, param_dirty, animate_running,
                 animations, mappings, dirty_parameters, module_dirty,
                 message_queue, events, flushed, deferred, transform_calls,
                 mapped_src, param_log>>

Defer ==
  /\ pc = "drain"
  /\ dirty_modules # <<>>
  /\ Head(dirty_modules) \in flushed
  /\ deferred' = Append(deferred, Head(dirty_modules))
  /\ dirty_modules' = Tail(dirty_modules)
  /\ UNCHANGED <<Calls, Clock, Tree, Midi>>
  /\ UNCHANGED <<parameters, value, last_sent, param_dirty, animate_running,
                 animations, mappings, dirty_parameters, module_dirty,
                 message_queue, events, pc, current, flushed,
                 transform_calls, mapped_src, param_log, flush_pre>>

\* a turn of the loop that takes the parameter off the buffer and sends nothing
flush_parameter_silent(st, m) ==
  LET p  == Head(st.dirty_parameters[m])
      s0 == [st EXCEPT !.dirty_parameters[m] = Tail(@)]
      s1 == IF should_send(s0, p)
            THEN LET t2 == set_last_sent(s0, p)
                     t3 == [t2 EXCEPT !.events = Append(@, <<m, p, t2.value[p]>>)]
                 IN check_mappings(t3, m, <<p>>)
            ELSE s0
  IN [s1 EXCEPT !.param_dirty[p] = FALSE]

\* a turn of the loop that clears the dirty flag of a parameter it sent only
flush_parameter_sent_only(st, m) ==
  LET p  == Head(st.dirty_parameters[m])
      s0 == [st EXCEPT !.dirty_parameters[m] = Tail(@)]
  IN IF should_send(s0, p)
     THEN LET t1 == IF address(p) # None
                    THEN send(s0, m, address(p), s0.value[p])
                    ELSE s0
              t2 == set_last_sent(t1, p)
              t3 == [t2 EXCEPT !.events = Append(@, <<m, p, t2.value[p]>>)]
          IN [check_mappings(t3, m, <<p>>) EXCEPT !.param_dirty[p] = FALSE]
     ELSE s0

\* a turn of the loop that leaves the parameter's dirty flag set
flush_parameter_keeps_flag(st, m) ==
  LET p  == Head(st.dirty_parameters[m])
      s0 == [st EXCEPT !.dirty_parameters[m] = Tail(@)]
  IN IF should_send(s0, p)
     THEN LET t1 == IF address(p) # None
                    THEN send(s0, m, address(p), s0.value[p])
                    ELSE s0
              t2 == set_last_sent(t1, p)
              t3 == [t2 EXCEPT !.events = Append(@, <<m, p, t2.value[p]>>)]
          IN check_mappings(t3, m, <<p>>)
     ELSE s0

\* one turn of the loop of update_dirty_parameters
flush_parameter(st, m) ==
  LET p  == Head(st.dirty_parameters[m])
      s0 == [st EXCEPT !.dirty_parameters[m] = Tail(@)]
      s1 == IF should_send(s0, p)
            THEN LET t1 == IF address(p) # None
                           THEN send(s0, m, address(p), s0.value[p])
                           ELSE s0
                     t2 == set_last_sent(t1, p)
                     t3 == [t2 EXCEPT !.events = Append(@, <<m, p, t2.value[p]>>)]
                 IN check_mappings(t3, m, <<p>>)
            ELSE s0
  IN [s1 EXCEPT !.param_dirty[p] = FALSE]

FlushParameter ==
  /\ pc = "flush"
  /\ dirty_parameters[current] # <<>>
  /\ Len(message_queue) < MaxQueue
  /\ Becomes(flush_parameter(Store, current))
  /\ drained' = drained \cup {Head(dirty_parameters[current])}
  /\ UNCHANGED <<Engine, raised, Clock, Tree, Midi>>

\* the end of update_dirty_parameters
Unlocked(ms) == [i \in 1..Len(ms) |-> [ms[i] EXCEPT !.locked = FALSE]]

FlushEnd ==
  /\ pc = "flush"
  /\ dirty_parameters[current] = <<>>
  /\ mappings' = [mappings EXCEPT ![current] = Unlocked(@)]
  /\ module_dirty' = [module_dirty EXCEPT ![current] = FALSE]
  /\ flushed' = flushed \cup {current}
  /\ pc' = "drain"
  /\ current' = None
  /\ flush_pre' = NoFlush
  /\ drained' = {}
  /\ UNCHANGED <<raised, Clock, Tree, Midi>>
  /\ UNCHANGED <<parameters, value, last_sent, param_dirty, animate_running,
                 animations, dirty_parameters, dirty_modules, message_queue,
                 events, deferred, transform_calls, mapped_src, param_log>>

TickEnd ==
  /\ pc = "drain"
  /\ dirty_modules = <<>>
  /\ dirty_modules' = deferred
  /\ deferred' = <<>>
  /\ message_queue' = <<>>
  /\ events' = <<>>
  /\ transform_calls' = ZeroCalls
  /\ flushed' = {}
  /\ pc' = "idle"
  /\ UNCHANGED <<Calls, Clock, Tree, Midi>>
  /\ UNCHANGED <<parameters, value, last_sent, param_dirty, animate_running,
                 animations, mappings, dirty_parameters, module_dirty,
                 current, mapped_src, param_log, flush_pre>>

Next ==
  \/ \E c \in MappingCalls : AddMapping(c)
  \/ \E p \in ParamNames, k \in BOOLEAN : \E v \in SetValues(p) : Set(p, v, k)
  \/ \E p \in Forced, v \in ForceValues : SetForce(p, v)
  \/ \E p \in ParamNames : Reset(p)
  \/ \E p \in Animated : Animate(p)
  \/ \E m \in Modules, out \in [Animated -> AnimOutcomes] :
        UpdateAnimations(m, out)
  \/ \E m \in Modules, f \in BOOLEAN : SetState(m, f)
  \/ TickBegin
  \/ FlushBegin
  \/ Defer
  \/ FlushParameter
  \/ FlushEnd
  \/ TickEnd

Spec == Init /\ [][Next]_vars

(***************************************************************************)
(* The clock, the tempo and the scene's Timer.                             *)
(***************************************************************************)
ModuleVars == <<parameters, value, last_sent, param_dirty, animate_running,
                animations, mappings, dirty_parameters, module_dirty,
                dirty_modules, message_queue, events, pc, current, flushed,
                deferred, transform_calls, mapped_src, param_log, flush_pre, drained,
                raised>>

\* the local variables of wait, and the wait a restart left behind
Threads == <<local, previous>>

\* a tick of the engine reads the clock
EngineClock(d, limit) ==
  /\ current_time + d <= limit
  /\ current_time' = current_time + d
  /\ current_beat' = NoValue
  /\ UNCHANGED <<tempo, tempo_map, timer, scene, origin, waited, steady>>
  /\ UNCHANGED <<ModuleVars, Threads, Tree, Midi>>

\* Engine.set_tempo: a new entry of the tempo map, and the Timer is told
SetTempo(bpm, limit) ==
  /\ Len(tempo_map) < limit
  /\ tempo' = bpm
  /\ tempo_map' = Append(tempo_map, <<current_time, bpm, cycle_length>>)
  /\ timer' = update_tempo(timer, current_time, bpm)
  /\ steady' = FALSE
  /\ current_beat' = NoValue
  /\ UNCHANGED <<current_time, scene, origin, waited>>
  /\ UNCHANGED <<ModuleVars, Threads, Tree, Midi>>

\* the scene calls wait and enters the polling loop
Wait(duration, mode) ==
  /\ scene = "idle"
  /\ timer' = wait(timer, duration, mode)
  /\ scene' = IF Recognized(mode) THEN "waiting" ELSE "idle"
  /\ waited' = IF Recognized(mode)
               THEN waited + Duration(timer, duration, mode)
               ELSE waited
  /\ UNCHANGED <<current_time, tempo, tempo_map, current_beat, origin, steady>>
  /\ UNCHANGED <<ModuleVars, Threads, Tree, Midi>>

\* the polling loop sees the deadline and wait returns
WaitReturn ==
  /\ scene = "waiting"
  /\ ~wait_blocked(timer, current_time)
  /\ timer' = wait_return(timer, current_time)
  /\ scene' = "idle"
  /\ UNCHANGED <<current_time, tempo, tempo_map, current_beat, origin, waited,
                 steady>>
  /\ UNCHANGED <<ModuleVars, Threads, Tree, Midi>>

\* the scene is restarted
TimerReset ==
  /\ timer' = timer_reset(timer, current_time, tempo)
  /\ scene' = "idle"
  /\ origin' = current_time
  /\ waited' = 0
  /\ steady' = TRUE
  /\ UNCHANGED <<current_time, tempo, tempo_map, current_beat>>
  /\ UNCHANGED <<ModuleVars, Threads, Tree, Midi>>

TimerInit ==
  /\ ModuleInit /\ TreeInit(8000) /\ MidiInit(NoEvent)
  /\ \E t0 \in Tempos : ClockInit(t0)

TimerNext ==
  \/ \E d \in ClockSteps : EngineClock(d, MaxSeconds * Second)
  \/ \E bpm \in Tempos : SetTempo(bpm, MaxTempoMap)
  \/ \E c \in WaitCalls : Wait(c[1], c[2])
  \/ WaitReturn
  \/ TimerReset

TimerSpec == TimerInit /\ [][TimerNext]_vars

\* the scene asks for the current beat
GetCurrentBeat ==
  /\ current_beat = NoValue
  /\ current_beat' = get_current_beat(tempo_map, current_time)
  /\ UNCHANGED <<current_time, tempo, tempo_map, timer, scene, origin, waited,
                 steady>>
  /\ UNCHANGED <<ModuleVars, Threads, Tree, Midi>>

BeatInit ==
  /\ ModuleInit /\ TreeInit(8000) /\ MidiInit(NoEvent)
  /\ \E t0 \in BeatTempos : ClockInit(t0)

BeatNext ==
  \/ \E d \in BeatSteps : EngineClock(d, MaxBeatSeconds * Second)
  \/ \E bpm \in BeatTempos : SetTempo(bpm, MaxBeatMap)
  \/ GetCurrentBeat

BeatSpec == BeatInit /\ [][BeatNext]_vars

\* the beat and the cycle over a tempo change, on a shorter run
MaxCycleSeconds == 4

MaxCycleMap == 2

CycleSteps == {700}

CycleNext ==
  \/ \E d \in CycleSteps : EngineClock(d, MaxCycleSeconds * Second)
  \/ \E bpm \in BeatTempos : SetTempo(bpm, MaxCycleMap)
  \/ GetCurrentBeat

CycleSpec == BeatInit /\ [][CycleNext]_vars


(***************************************************************************)
(* The scripts construct modules, hand them to add_submodule and send.     *)
(***************************************************************************)
\* Module(name, protocol, port, parent)
Construct(name, pp, parent) ==
  /\ Len(objects) < 1 + MaxModules
  /\ parent = NoModule \/ (parent > EngineId /\ parent <= Len(objects))
  /\ objects' = Append(objects, NewModule(objects, name, pp[1], pp[2], parent))
  /\ UNCHANGED <<log, module_events, sender>>
  /\ UNCHANGED <<ModuleVars, Clock, Midi>>

\* self.add_submodule(module); a module is never handed to itself or to
\* one of its own descendants
AddSubmodule(self, module) ==
  /\ self \in 1..Len(objects)
  /\ module \in 2..Len(objects)
  /\ module \notin Ancestors(objects, self)
  /\ Len(module_events) < MaxAdds
  /\ LET t == add_submodule(TreeStore, self, module)
     IN /\ objects' = t.objects
        /\ log' = t.log
        /\ module_events' = t.module_events
  /\ UNCHANGED sender
  /\ UNCHANGED <<ModuleVars, Clock, Midi>>

\* m.send('/ping', 1)
Send(m) ==
  /\ m \in 2..Len(objects)
  /\ sender = NoModule
  /\ message_queue = <<>>
  /\ message_queue' = send_from(objects, message_queue, m, "/ping", 1)
  /\ sender' = m
  /\ UNCHANGED <<objects, log, module_events>>
  /\ UNCHANGED <<parameters, value, last_sent, param_dirty, animate_running,
                 animations, mappings, dirty_parameters, module_dirty,
                 dirty_modules, events, pc, current, flushed, deferred,
                 transform_calls, mapped_src, param_log, flush_pre, drained, raised>>
  /\ UNCHANGED <<Clock, Midi>>

\* the tick hands the queue to the transports
HandOff ==
  /\ sender # NoModule
  /\ message_queue' = <<>>
  /\ sender' = NoModule
  /\ UNCHANGED <<objects, log, module_events>>
  /\ UNCHANGED <<parameters, value, last_sent, param_dirty, animate_running,
                 animations, mappings, dirty_parameters, module_dirty,
                 dirty_modules, events, pc, current, flushed, deferred,
                 transform_calls, mapped_src, param_log, flush_pre, drained, raised>>
  /\ UNCHANGED <<Clock, Midi>>

TreeSpecInit ==
  /\ ModuleInit /\ ClockInit(120) /\ MidiInit(NoEvent)
  /\ \E p \in EnginePorts : TreeInit(p)

TreeNext ==
  \/ \E name \in ModuleNames, pp \in PortArgs, parent \in 0..MaxModules :
        Construct(name, pp, parent)
  \/ \E self \in 1..(1 + MaxModules), module \in 2..(1 + MaxModules) :
        AddSubmodule(self, module)
  \/ \E m \in 2..(1 + MaxModules) : Send(m)
  \/ HandOff

TreeSpec == TreeSpecInit /\ [][TreeNext]_vars

(***************************************************************************)
(* An event of the sequencer port is converted, and the result converted   *)
(* back.                                                                   *)
(***************************************************************************)
MidiToOsc ==
  /\ midi_pc = "event"
  /\ osc' = midi_to_osc(midi_event)
  /\ midi_pc' = "osc"
  /\ UNCHANGED <<midi_event, midi_out>>
  /\ UNCHANGED <<ModuleVars, Clock, Tree>>

OscToMidi ==
  /\ midi_pc = "osc"
  /\ osc # NoOsc
  /\ midi_out' = osc_to_midi(osc.address, osc.args)
  /\ midi_pc' = "midi"
  /\ UNCHANGED <<midi_event, osc>>
  /\ UNCHANGED <<ModuleVars, Clock, Tree>>

MidiSpecInit ==
  /\ ModuleInit /\ ClockInit(120) /\ TreeInit(8000)
  /\ \E event \in MidiEvents : MidiInit(event)

MidiNext == MidiToOsc \/ OscToMidi

MidiSpec == MidiSpecInit /\ [][MidiNext]_vars


(***************************************************************************)
(* The scripts animate parameters, set them, stop animations; the engine   *)
(* runs its animation pass.                                                *)
(***************************************************************************)
AnimParams == {"u", "x", "y"}

\* stop_animate(name) on module m
StopAnimate(m, name) ==
  /\ pc = "idle"
  /\ name = "*" \/ (name \in ParamNames /\ owner(name) = m)
  /\ LET r == stop_animate(Store, m, name)
     IN Becomes(r.store) /\ raised' = r.raised
  /\ UNCHANGED <<Engine, drained, Clock, Tree, Midi>>

AnimNext ==
  \/ \E p \in AnimParams : Animate(p)
  \/ \E p \in AnimParams, k \in BOOLEAN : \E v \in SetValues(p) : Set(p, v, k)
  \/ \E m \in Modules, name \in {"*"} \cup AnimParams : StopAnimate(m, name)
  \/ \E m \in Modules, out \in [AnimParams -> AnimOutcomes] :
        UpdateAnimations(m, out)

AnimSpec == Init /\ [][AnimNext]_vars


(***************************************************************************)
(* The drain loop of update_dirty_parameters as a process of its own: a    *)
(* turn of the while loop is taken as long as the buffer is not empty, and *)
(* the statements after the loop run once it is.  The loop never reads the *)
(* outbound queue nor the dispatched events: of both only the most recent  *)
(* entries are kept, so that a loop that repeats itself repeats a state.   *)
(***************************************************************************)
Last(seq, n) ==
  IF Len(seq) <= n THEN seq ELSE SubSeq(seq, Len(seq) - n + 1, Len(seq))

FlushTurn ==
  /\ pc = "flush"
  /\ dirty_parameters[current] # <<>>
  /\ \E st \in {flush_parameter(Store, current)} :
        Becomes([st EXCEPT !.message_queue = Last(@, MaxQueue),
                           !.events = Last(@, MaxQueue)])
  /\ drained' = drained \cup {Head(dirty_parameters[current])}
  /\ UNCHANGED <<Engine, raised, Clock, Tree, Midi>>

LoopNext ==
  \/ \E c \in MappingCalls : AddMapping(c)
  \/ \E p \in ParamNames, k \in BOOLEAN : \E v \in SetValues(p) : Set(p, v, k)
  \/ TickBegin
  \/ FlushBegin
  \/ Defer
  \/ FlushTurn
  \/ FlushEnd
  \/ TickEnd

\* sequential code goes on: the loop takes its next turn, and the method
\* goes on after the loop
LoopSpec ==
  Init /\ [][LoopNext]_vars /\ WF_vars(FlushTurn) /\ WF_vars(FlushEnd)


(***************************************************************************)
(* The scene as a thread of its own: the engine thread (clock, tempo) and  *)
(* a restart of the scene come between any two statements of Timer.wait.   *)
(* A restart resets the Timer and starts the new run; the run it replaces  *)
(* is not interrupted: its wait goes on from where it was, on the same     *)
(* Timer, and the run ends when that wait returns.                         *)
(***************************************************************************)
SceneCalls == {<<1, "beats">>, <<4, "beats">>, <<1, "seconds">>, <<1, "minutes">>}

\* lines 54-63: the duration in units of the clock, or the logged return
WaitConvert(duration, mode) ==
  /\ scene = "idle"
  /\ IF Recognized(mode)
     THEN /\ local' = [duration |-> Duration(timer, duration, mode),
                       mode |-> mode, arg |-> duration, called |-> current_time]
          /\ scene' = "converted"
          /\ waited' = waited + Duration(timer, duration, mode)
     ELSE /\ local' = [duration |-> duration, mode |-> mode, arg |-> duration,
                       called |-> current_time]
          /\ UNCHANGED <<scene, waited>>
  /\ UNCHANGED <<current_time, tempo, tempo_map, timer, current_beat, origin,
                 steady, previous>>
  /\ UNCHANGED <<ModuleVars, Tree, Midi>>

\* line 65
WaitSetEnd ==
  /\ scene = "converted"
  /\ timer' = wait_end(timer, local.duration)
  /\ scene' = "timed"
  /\ UNCHANGED <<current_time, tempo, tempo_map, current_beat, origin, waited,
                 steady, local, previous>>
  /\ UNCHANGED <<ModuleVars, Tree, Midi>>

\* lines 67-68
WaitSetBeat ==
  /\ scene = "timed"
  /\ timer' = wait_beat(timer, local.mode)
  /\ scene' = "waiting"
  /\ UNCHANGED <<current_time, tempo, tempo_map, current_beat, origin, waited,
                 steady, local, previous>>
  /\ UNCHANGED <<ModuleVars, Tree, Midi>>

\* line 70: the test of the loop fails
WaitPoll ==
  /\ scene = "waiting"
  /\ ~wait_blocked(timer, current_time)
  /\ scene' = "leaving"
  /\ UNCHANGED <<current_time, tempo, tempo_map, timer, current_beat, origin,
                 waited, steady, local, previous>>
  /\ UNCHANGED <<ModuleVars, Tree, Midi>>

\* line 73
WaitClear ==
  /\ scene = "leaving"
  /\ timer' = wait_clear(timer)
  /\ scene' = "cleared"
  /\ UNCHANGED <<current_time, tempo, tempo_map, current_beat, origin, waited,
                 steady, local, previous>>
  /\ UNCHANGED <<ModuleVars, Tree, Midi>>

\* line 75, and wait returns
WaitRebase ==
  /\ scene = "cleared"
  /\ timer' = wait_rebase(timer)
  /\ scene' = "idle"
  /\ UNCHANGED <<current_time, tempo, tempo_map, current_beat, origin, waited,
                 steady, local, previous>>
  /\ UNCHANGED <<ModuleVars, Tree, Midi>>

\* the scene is restarted while its run is in the polling loop of wait
Restart ==
  /\ scene = "waiting"
  /\ previous = "none"
  /\ timer' = timer_reset(timer, current_time, tempo)
  /\ previous' = "waiting"
  /\ scene' = "idle"
  /\ local' = NoCall
  /\ origin' = current_time
  /\ waited' = 0
  /\ steady' = TRUE
  /\ UNCHANGED <<current_time, tempo, tempo_map, current_beat>>
  /\ UNCHANGED <<ModuleVars, Tree, Midi>>

\* the wait of the previous run: lines 70, 73 and 75
PreviousPoll ==
  /\ previous = "waiting"
  /\ ~wait_blocked(timer, current_time)
  /\ previous' = "leaving"
  /\ UNCHANGED <<current_time, tempo, tempo_map, timer, scene, current_beat,
                 origin, waited, steady, local>>
  /\ UNCHANGED <<ModuleVars, Tree, Midi>>

PreviousClear ==
  /\ previous = "leaving"
  /\ timer' = wait_clear(timer)
  /\ previous' = "cleared"
  /\ UNCHANGED <<current_time, tempo, tempo_map, scene, current_beat, origin,
                 waited, steady, local>>
  /\ UNCHANGED <<ModuleVars, Tree, Midi>>

PreviousRebase ==
  /\ previous = "cleared"
  /\ timer' = wait_rebase(timer)
  /\ previous' = "none"
  /\ UNCHANGED <<current_time, tempo, tempo_map, scene, current_beat, origin,
                 waited, steady, local>>
  /\ UNCHANGED <<ModuleVars, Tree, Midi>>

SceneNext ==
  \/ \E d \in ClockSteps : EngineClock(d, MaxSeconds * Second)
  \/ \E bpm \in Tempos : SetTempo(bpm, MaxTempoMap)
  \/ \E c \in SceneCalls : WaitConvert(c[1], c[2])
  \/ WaitSetEnd
  \/ WaitSetBeat
  \/ WaitPoll
  \/ WaitClear
  \/ WaitRebase
  \/ Restart
  \/ PreviousPoll
  \/ PreviousClear
  \/ PreviousRebase

SceneSpec == TimerInit /\ [][SceneNext]_vars


(***************************************************************************)
(* Parameters added and removed by the scripts while the engine runs.  No  *)
(* mapping is installed here, so no module is made dirty again in a tick.  *)
(* A name is added again only once the object of the parameter removed     *)
(* under that name has left the dirty buffer.                              *)
(***************************************************************************)
MaxAddCalls == 2

AddParameter(p) ==
  /\ pc = "idle"
  /\ Len(param_log) < Len(SetUp) + MaxAddCalls
  /\ Exists(Store, p) \/ ~Contains(dirty_parameters[owner(p)], p)
  /\ Becomes(add_parameter(Store, p))
  /\ UNCHANGED <<Engine, Calls, Clock, Tree, Midi>>

RemoveParameter(m, name) ==
  /\ pc = "idle"
  /\ Becomes(remove_parameter(Store, m, name))
  /\ UNCHANGED <<Engine, Calls, Clock, Tree, Midi>>

ParamNext ==
  \/ \E p \in ParamNames : AddParameter(p)
  \/ \E m \in Modules, name \in ParamNames \cup {"*"} : RemoveParameter(m, name)
  \/ \E p \in ParamNames, k \in BOOLEAN : \E v \in SetValues(p) : Set(p, v, k)
  \/ \E p \in Animated : Animate(p)
  \/ TickBegin
  \/ FlushBegin
  \/ FlushParameter
  \/ FlushEnd
  \/ TickEnd

ParamSpec == Init /\ [][ParamNext]_vars


(***************************************************************************)
(* The flush protocol with a mapping whose destination is its own source.  *)
(***************************************************************************)
ClampNext ==
  \/ AddMapping(ClampCall)
  \/ \E p \in ParamNames, k \in BOOLEAN : \E v \in SetValues(p) : Set(p, v, k)
  \/ \E p \in Forced, v \in ForceValues : SetForce(p, v)
  \/ TickBegin
  \/ FlushBegin
  \/ FlushParameter
  \/ FlushEnd
  \/ TickEnd

ClampSpec == Init /\ [][ClampNext]_vars


(***************************************************************************)
(* One run of a scene and the engine thread: the clock keeps advancing up  *)
(* to the horizon, the tempo changes finitely often, and a thread that can *)
(* take a step of wait takes it.  Waits end within the horizon.            *)
(***************************************************************************)
\* the clock readings and the tempo-map entries of a run
MaxWaitSeconds == 2

MaxWaitTempoMap == 2

Horizon == MaxWaitSeconds * Second

ClockTick == \E d \in ClockSteps : EngineClock(d, Horizon)

TempoChange ==
  \E bpm \in Tempos :
     /\ update_tempo(timer, current_time, bpm).end_time <= Horizon
     /\ SetTempo(bpm, MaxWaitTempoMap)

WaitCall ==
  \E c \in SceneCalls :
     /\ timer.start_time + Duration(timer, c[1], c[2]) <= Horizon
     /\ WaitConvert(c[1], c[2])

SceneStep == WaitSetEnd \/ WaitSetBeat \/ WaitPoll \/ WaitClear \/ WaitRebase

WaitNext == ClockTick \/ TempoChange \/ WaitCall \/ SceneStep

WaitSpec ==
  /\ TimerInit
  /\ [][WaitNext]_vars
  /\ WF_vars(ClockTick)
  /\ WF_vars(SceneStep)



(***************************************************************************)
(* Vocabulary of the properties.                                           *)
(***************************************************************************)
\* update_dirty_parameters has drained its buffer and is about to return
FlushDone == pc = "flush" /\ dirty_parameters[current] = <<>>

\* the messages put on the outbound queue since the flush began
FlushMessages == SubSeq(message_queue, flush_pre.sent + 1, Len(message_queue))

MessagesFor(seq, p) == {i \in 1..Len(seq) : seq[i][3] = address(p)}

\* the parameters that had been set and were pending when the flush began
Pending == {flush_pre.queue[i] : i \in 1..Len(flush_pre.queue)}

MappingKeys == {<<o, i>> \in Modules \X (1..2) : i <= Len(mappings[o])}

MappingDests ==
  {Resolve(k[1], mappings[k[1]][k[2]].dest) : k \in MappingKeys}

\* C1: of a parameter that was set since the last flush, the flush sends
\* at most one Message, with the value last set, and exactly one when that
\* value differs from the last-transmitted snapshot
Coalesced(p) ==
  LET mine == MessagesFor(FlushMessages, p)
  IN /\ Cardinality(mine) <= 1
     /\ \A i \in mine :
           FlushMessages[i] =
              Message(protocol(current), port(current), address(p), value[p])
     /\ value[p] # flush_pre.last_sent[p] => Cardinality(mine) = 1

C2_DirtyOnce ==
  /\ [](\A m \in Modules, p \in ParamNames : Count(dirty_parameters[m], p) <= 1)
  /\ [][(/\ pc = "flush"
         /\ dirty_parameters[current] # <<>>
         /\ dirty_parameters'[current] # dirty_parameters[current]
         /\ value[Head(dirty_parameters[current])]
              = last_sent[Head(dirty_parameters[current])])
        => message_queue' = message_queue]_vars

\* the flush is about to take a pending parameter whose value is back at
\* the value transmitted last
C2_Witness ==
  /\ pc = "flush"
  /\ dirty_parameters[current] # <<>>
  /\ LET p == Head(dirty_parameters[current])
     IN /\ value[p] = last_sent[p]
        /\ last_sent[p] # NoValue
        /\ param_dirty[p]
        /\ value[p] = flush_pre.value[p]

\* C3 as claimed: in one tick the transform of a mapping runs at most once,
\* whoever owns the mapping.
C3_OncePerCycle ==
  \A k \in MappingKeys : transform_calls[k[1]][k[2]] <= 1


\* the pair add_mapping('x', 'y', x -> 2x, y -> y/2) installs in S
DoublePair ==
  /\ mappings["M"] = <<>>
  /\ Len(mappings["S"]) = 2
  /\ mappings["S"][1].src = <<"x">> /\ mappings["S"][1].dest = <<"y">>
  /\ mappings["S"][1].transform = "double"
  /\ mappings["S"][2].src = <<"y">> /\ mappings["S"][2].dest = <<"x">>
  /\ mappings["S"][2].transform = "half"

\* the flush of S began with the pair installed in an earlier cycle (no
\* mapping held locked), and with the source alone pending, set to 3, a
\* value that differs from the one transmitted last
SourceSetTo3 ==
  /\ pc = "flush" /\ current = "S"
  /\ DoublePair
  /\ flush_pre.locked = {}
  /\ flush_pre.queue = <<"x">>
  /\ flush_pre.value["x"] = 3
  /\ flush_pre.last_sent["x"] # 3

EventsFor(m, p) == {i \in 1..Len(events) : events[i][1] = m /\ events[i][2] = p}

\* C4: with the pair x -> 2x / y -> y/2 installed, setting the source to 3
\* and flushing leaves the destination at 6, assigned by one run of the
\* transform, the source still at 3, and the source sent and notified once.
C4_DoubleOnce ==
  (SourceSetTo3 /\ FlushDone) =>
     /\ value["y"] = 6
     /\ value["x"] = 3
     /\ transform_calls["S"][1] = 1
     /\ Cardinality(MessagesFor(FlushMessages, "x")) = 1
     /\ Cardinality(EventsFor("S", "x")) = 1

\* the flush triggered by setting the source to 3 has ended, and the
\* destination was assigned in it
C4_Witness ==
  /\ SourceSetTo3 /\ FlushDone
  /\ flush_pre.value["y"] # 6
  /\ value["y"] = 6

\* C5 as claimed: a change of the value of a mapping's source is followed,
\* by the end of the next flush of the source's module, by a run of the
\* transform on the new value.  Stated for the mappings the cycle's lock
\* does not hold back: the source value the transform ran on last (or the
\* value the source had when the mapping was added) is the current one.
C5_TransformFollowsSource ==
  FlushDone =>
    \A k \in MappingKeys :
       LET p == Resolve(k[1], mappings[k[1]][k[2]].src)
       IN (owner(p) = current /\ ~mappings[k[1]][k[2]].locked)
             => mapped_src[k[1]][k[2]] = value[p]

\* C6: set(..., force_send=True) on an addressed parameter applies the
\* value, puts one Message with it on the outbound queue, makes it the
\* last-transmitted snapshot, and leaves the dirty buffers and the dirty
\* flags of the parameters and of the modules as they were.
C6_ForcedSetFrame ==
  [][\A p \in Forced, v \in ForceValues :
        (SetForce(p, v) /\ address(p) # None) =>
           /\ value'[p] = v
           /\ message_queue' =
                Append(message_queue,
                       Message(protocol(owner(p)), port(owner(p)), address(p), v))
           /\ last_sent'[p] = v
           /\ dirty_parameters' = dirty_parameters
           /\ param_dirty' = param_dirty
           /\ module_dirty' = module_dirty
           /\ dirty_modules' = dirty_modules]_vars

\* a forced set has sent the value of a parameter that was, and still is,
\* pending in the dirty buffer of its module
C6_Witness ==
  /\ pc = "idle"
  /\ \E p \in Forced :
        /\ message_queue = <<Message(protocol(owner(p)), port(owner(p)),
                                     address(p), value[p])>>
        /\ last_sent[p] = value[p]
        /\ param_dirty[p]
        /\ Contains(dirty_parameters[owner(p)], p)


\* the parameters get_state(m) lists: those of m and of its submodules
StateParams(m) ==
  LET state == get_state(Store, m)
  IN [i \in 1..Len(state) |-> Resolve(m, state[i][1])]

Addressed(p) == address(p) # None

\* the Messages that send_state puts on the queue, in the order of the state
Retransmitted(m) ==
  LET ps == SelectSeq(StateParams(m), Addressed)
  IN [i \in 1..Len(ps) |->
        Message(protocol(owner(ps[i])), port(owner(ps[i])), address(ps[i]),
                value[ps[i]])]

\* parameters whose flush is due to send and notify
Unsent(pd, val, ls) ==
  {p \in ParamNames : pd[p] /\ address(p) # None /\ val[p] # ls[p]}

C8_RemainingBeatsKept ==
  [][\A bpm \in Tempos :
        (SetTempo(bpm, MaxTempoMap) /\ timer.is_beat_waiting) =>
           /\ (timer'.end_time - current_time) * bpm
                = (timer.end_time - current_time) * timer.tempo
           /\ timer'.tempo = tempo']_vars

\* a wait of 4 beats at 120 is half elapsed when the tempo becomes 60: the
\* second that remained has become two
C8_Witness ==
  /\ scene = "waiting" /\ timer.is_beat_waiting
  /\ Len(tempo_map) >= 2
  /\ tempo_map[Len(tempo_map)] = <<current_time, 60, cycle_length>>
  /\ tempo_map[Len(tempo_map) - 1][2] = 120
  /\ current_time = timer.start_time + Second
  /\ timer.end_time = current_time + 2 * Second
  /\ timer.tempo = 60

\* the beats elapsed since the engine started, by the tempo map: the floor
\* of the sum of seconds / 60 * tempo over the segments
RECURSIVE BeatUnits(_, _, _)
BeatUnits(map, engine_time, i) ==
  IF i > Len(map)
  THEN 0
  ELSE (IF i = Len(map) THEN engine_time - map[i][1]
                        ELSE map[i + 1][1] - map[i][1]) * map[i][2]
       + BeatUnits(map, engine_time, i + 1)

BeatFloor(map, engine_time) == BeatUnits(map, engine_time, 1) \div (60 * Second)

\* C9: get_current_beat returns the floor of the sum, over the segments of
\* the tempo map, of the seconds of the segment / 60 * its tempo.
C9_BeatIsFloor ==
  current_beat # NoValue => current_beat = BeatFloor(tempo_map, current_time)

\* C10: consecutive waits do not drift: with no tempo change and no reset
\* since the Timer was set, after a wait returns start_time is the start
\* time the Timer was set with plus the durations of the waits, however
\* late the polling loops saw their deadlines.
C10_NoDrift ==
  (scene = "idle" /\ steady) => timer.start_time = origin + waited

\* a second and a half of waits returned (two waits at least: no wait
\* lasts that long), the last one seen late by the polling loop
C10_Witness ==
  /\ scene = "idle" /\ steady
  /\ 2 * waited = 3 * Second
  /\ timer.start_time = origin + waited
  /\ current_time > timer.start_time

\* the names met by following the parent_module links from the root down to m
Chain(objs, m) == PathFrom(objs, objs[m].parent_module, <<objs[m].name>>)

\* C11 as claimed: the module_path of every module is the sequence of names
\* on the parent_module links from the root down to it, it never changes
\* after construction, and no two modules have the same module_path.
C11_ModulePathIsTreeAddress ==
  /\ [](\A m \in 1..Len(objects) : objects[m].module_path = Chain(objects, m))
  /\ [](\A m, n \in 1..Len(objects) :
           m # n => objects[m].module_path # objects[n].module_path)
  /\ [][\A m \in 1..Len(objects) :
           objects'[m].module_path = objects[m].module_path]_vars

\* add_submodule is called with a module constructed with another parent
WrongParent(self, module) ==
  AddSubmodule(self, module) /\ objects[module].parent_module # self

\* C12 as claimed: add_submodule with a module whose parent is not the
\* receiver writes a critical log entry and changes nothing else: not the
\* receiver's submodules, not the module's parent_module, protocol and
\* port, not the events.
C12_WrongParentNoOp ==
  [][\A self \in 1..Len(objects), module \in 2..Len(objects) :
        WrongParent(self, module) =>
           /\ log' = Append(log, <<"critical", self, module>>)
           /\ objects'[self].submodules = objects[self].submodules
           /\ objects'[module].parent_module = objects[module].parent_module
           /\ objects'[module].protocol = objects[module].protocol
           /\ objects'[module].port = objects[module].port
           /\ module_events' = module_events]_vars

\* C12, amended: add_submodule with a module whose parent is not the
\* receiver writes a critical log entry and then goes on as for any module:
\* the module is in the receiver's submodules under its name, it takes the
\* receiver's protocol and port where its own are unset, its parent_module
\* becomes the receiver, and one module_added event is dispatched; its
\* module_path and every other module stay as they were.
C12_WrongParentReparents ==
  [][\A self \in 1..Len(objects), module \in 2..Len(objects) :
        WrongParent(self, module) =>
           /\ log' = Append(log, <<"critical", self, module>>)
           /\ \E i \in 1..Len(objects'[self].submodules) :
                 objects'[self].submodules[i] = <<objects[module].name, module>>
           /\ \A e \in {objects[self].submodules[i] :
                          i \in 1..Len(objects[self].submodules)} :
                 e[1] # objects[module].name =>
                    \E i \in 1..Len(objects'[self].submodules) :
                       objects'[self].submodules[i] = e
           /\ objects'[module].parent_module = self
           /\ objects'[module].protocol =
                IF objects[module].protocol = None
                THEN objects[self].protocol ELSE objects[module].protocol
           /\ objects'[module].port =
                IF objects[module].port = NoPort
                THEN objects[self].port ELSE objects[module].port
           /\ objects'[module].module_path = objects[module].module_path
           /\ objects'[module].name = objects[module].name
           /\ \A o \in 1..Len(objects) :
                 o \notin {self, module} => objects'[o] = objects[o]
           /\ module_events' =
                Append(module_events, <<"module_added", self, module>>)]_vars

\* a module constructed under one parent was handed to another module's
\* add_submodule: the call is logged, and the module is now a submodule of
\* the receiver
C12_Witness ==
  \E i \in 1..Len(log) :
     LET self == log[i][2]
         module == log[i][3]
     IN /\ log[i][1] = "critical"
        /\ objects[module].parent_module = self
        /\ \E k \in 1..Len(objects[self].submodules) :
              objects[self].submodules[k] = <<objects[module].name, module>>
        /\ module_events[Len(module_events)] = <<"module_added", self, module>>
        /\ objects[module].module_path # Chain(objects, module)

\* the nearest module with a port set, from m upwards
RECURSIVE Nearest(_, _)
Nearest(objs, m) ==
  IF m = NoModule
  THEN NoModule
  ELSE IF objs[m].port # NoPort
       THEN m
       ELSE Nearest(objs, objs[m].parent_module)

\* C13 as claimed: send on a module without a port of its own enqueues a
\* Message with the protocol and port of the nearest ancestor that has a
\* port, and enqueues nothing only when no ancestor has one.
C13_NearestAncestorPort ==
  [][\A m \in 2..Len(objects) :
        (Send(m) /\ objects[m].port = NoPort) =>
           LET a == Nearest(objects, objects[m].parent_module)
           IN message_queue' =
                IF a # NoModule
                THEN <<Message(objects[a].protocol, objects[a].port, "/ping", 1)>>
                ELSE <<>>]_vars

\* the fixed table: the address and the arguments of a MIDI event
Table(e) ==
  LET d == e.data
  IN CASE e.type = "SEQ_EVENT_NOTEON" ->
            [address |-> "/note_on",
             args |-> <<d["note.channel"], d["note.note"], d["note.velocity"]>>]
       [] e.type = "SEQ_EVENT_NOTEOFF" ->
            [address |-> "/note_off",
             args |-> <<d["note.channel"], d["note.note"], 0>>]
       [] e.type = "SEQ_EVENT_CONTROLLER" ->
            [address |-> "/control_change",
             args |-> <<d["control.channel"], d["control.param"],
                        d["control.value"]>>]
       [] e.type = "SEQ_EVENT_PGMCHANGE" ->
            [address |-> "/program_change",
             args |-> <<d["control.channel"], d["control.value"]>>]
       [] e.type = "SEQ_EVENT_PITCHBEND" ->
            [address |-> "/pitch_bend",
             args |-> <<d["control.channel"], d["control.value"]>>]
       [] e.type = "SEQ_EVENT_START" -> [address |-> "/start", args |-> <<>>]
       [] e.type = "SEQ_EVENT_STOP" -> [address |-> "/stop", args |-> <<>>]
       [] OTHER -> NoOsc

\* C16: midi_to_osc gives every event the address and the arguments of the
\* table (note-on: channel, note, velocity; note-off: channel, note, 0;
\* control change: channel, controller, value; program change and pitch
\* bend: channel, value; start and stop: none; no result for an unsupported
\* type), and osc_to_midi of a note-on result is a note-on event with the
\* same channel, note and velocity.
C16_MidiTable ==
  /\ (midi_pc # "event" /\ midi_event.type # "SEQ_EVENT_SYSEX")
        => osc = Table(midi_event)
  /\ (midi_pc = "midi" /\ midi_event.type = "SEQ_EVENT_NOTEON")
        => /\ midi_out.type = "SEQ_EVENT_NOTEON"
           /\ \A k \in {"note.channel", "note.note", "note.velocity"} :
                 midi_out.data[k] = midi_event.data[k]

\* the note-on of channel 1, note 60, velocity 100 became /note_on 1 60 100
\* and was converted back
C16_Witness ==
  /\ midi_pc = "midi"
  /\ midi_event.type = "SEQ_EVENT_NOTEON"
  /\ osc = [address |-> "/note_on", args |-> <<1, 60, 100>>]
  /\ midi_out.type = "SEQ_EVENT_NOTEON"
  /\ midi_out.data["note.velocity"] = 100

C19_FlushReturns ==
  [][FlushEnd =>
       /\ dirty_parameters'[current] = <<>>
       /\ \A p \in drained : ~param_dirty'[p]
       /\ \A i \in 1..Len(mappings'[current]) : ~mappings'[current][i].locked
       /\ ~module_dirty'[current]]_vars

\* a flush is about to return that took a parameter a mapping enqueued
\* during the drain, with a mapping of the module still locked
C19_Witness ==
  /\ FlushDone
  /\ \E p \in drained : p \notin Pending
  /\ \E i \in 1..Len(mappings[current]) : mappings[current][i].locked

\* m and the modules below it
RECURSIVE Subtree(_)
Subtree(m) ==
  {m} \cup UNION {Subtree(submodules(m)[k]) : k \in 1..Len(submodules(m))}

\* C14 as claimed: stop_animate('*') on a module stops every running
\* animation of the module and of all the modules below it: after the call
\* no parameter of the subtree has a running animation.
C14_StopAllInSubtree ==
  [][\A m \in Modules :
        StopAnimate(m, "*") =>
           \A p \in ParamNames : owner(p) \in Subtree(m) => ~animate_running'[p]]_vars

\* C20 as claimed: one update_animations on a module gives every running
\* animation of its active set (and of those of its submodules) its step of
\* the pass, and takes every idle parameter out of the set.
C20_AnimationPass ==
  [][\A m \in Modules, out \in [AnimParams -> AnimOutcomes] :
        UpdateAnimations(m, out) =>
           \A n \in Subtree(m) : \A i \in 1..Len(animations[n]) :
              LET p == animations[n][i]
              IN IF animate_running[p]
                 THEN /\ value'[p] = out[p].v
                      /\ animate_running'[p] = ~out[p].done
                      /\ Contains(animations'[n], p)
                 ELSE ~Contains(animations'[n], p)]_vars

\* the calls of mapping k's transform counted before the step (none if the
\* step installs the mapping)
CallsBefore(k) ==
  IF k[2] <= Len(transform_calls[k[1]]) THEN transform_calls[k[1]][k[2]] ELSE 0

\* the step ran update_mapping once, for mapping k alone
RanAlone(k) ==
  /\ k[2] <= Len(mappings'[k[1]])
  /\ transform_calls'[k[1]][k[2]] = CallsBefore(k) + 1
  /\ \A j \in Modules \X (1..2) :
        (j # k /\ j[2] <= Len(mappings'[j[1]]))
           => transform_calls'[j[1]][j[2]] = CallsBefore(j)

\* C18 as claimed: when update_mapping has distributed the result and the
\* module that owns the destination parameter is dirty, the mapping is left
\* locked, also when the destination is a parameter of a submodule of the
\* module that owns the mapping.
C18_LockedWhileDestinationDirty ==
  [][\A k \in Modules \X (1..2) :
        RanAlone(k) =>
           LET mapping == mappings'[k[1]][k[2]]
           IN module_dirty'[owner(Resolve(k[1], mapping.dest))] => mapping.locked]_vars

\* C17 as claimed: every update_dirty_parameters terminates: a flush that
\* has begun reaches the end of its drain loop, whatever mappings are
\* installed and whoever owns them.
C17_FlushTerminates == (pc = "flush") ~> (pc = "drain")

\* C21 as claimed: a restart of the scene sets start_time and end_time of
\* the Timer to current_time, takes the tempo of the engine and clears
\* is_beat_waiting; the wait of the previous run leaves its polling loop at
\* its next poll; and it does not afterwards alter the Timer of a wait call
\* the new run has begun.
C21_RestartCancelsWait ==
  /\ [][Restart => timer' = [start_time |-> current_time, end_time |-> current_time,
                             tempo |-> tempo, is_beat_waiting |-> FALSE]]_vars
  /\ [](previous = "waiting" => ~wait_blocked(timer, current_time))
  /\ [][(previous # "none" /\ previous' # previous /\ scene # "idle")
           => timer' = timer]_vars

\* C27: once remove_parameter(name) has returned, no flush sends a Message
\* or dispatches parameter_changed for the removed parameter, even if it was
\* in the module's dirty buffer when it was removed.
C27_RemovedParameterSilent ==
  [][(FlushParameter /\ ~Exists(Store, Head(dirty_parameters[current])))
        => /\ message_queue' = message_queue
           /\ events' = events]_vars

\* C23: while no flush is in progress, a parameter's dirty flag is set
\* exactly if the parameter is in its module's dirty buffer, where it is
\* exactly once, and a module's dirty flag is set exactly if its dirty buffer
\* is not empty and the module is queued with the engine.
C23_DirtyStateConsistent ==
  pc # "flush" =>
    /\ \A p \in ParamNames :
          /\ Count(dirty_parameters[owner(p)], p) = (IF param_dirty[p] THEN 1 ELSE 0)
          /\ \A m \in Modules \ {owner(p)} : ~Contains(dirty_parameters[m], p)
    /\ \A m \in Modules :
          module_dirty[m] <=> /\ dirty_parameters[m] # <<>>
                              /\ Contains(dirty_modules \o deferred, m)

\* a tick is over with x pending again: S was flushed, then the flush of M
\* set x through a mapping and S waits for the next tick
C23_Witness ==
  /\ pc = "idle"
  /\ param_dirty["x"] /\ dirty_parameters["S"] = <<"x">>
  /\ module_dirty["S"] /\ Contains(dirty_modules, "S")
  /\ ~module_dirty["M"] /\ dirty_parameters["M"] = <<>>
  /\ message_queue = <<>>
  /\ last_sent["x"] # NoValue /\ last_sent["u"] # NoValue

\* C24: whenever a module is not dirty, every addressed parameter of it that
\* was transmitted holds the value that was last transmitted: a value
\* assigned to a parameter while it is being flushed, by a mapping whose
\* destination is that parameter, is transmitted by that flush or a later one.
C24_NoLostUpdate ==
  \A p \in ParamNames :
     (address(p) # None /\ last_sent[p] # NoValue /\ ~module_dirty[owner(p)])
        => value[p] = last_sent[p]

\* C25: a tempo change at any point of a beat-relative wait call, also
\* between the conversion of the duration and the setting of
\* is_beat_waiting, leaves no end_time computed with a stale tempo: when the
\* call, made at the Timer's start time, enters its polling loop with no
\* time elapsed, the time to wait is the requested beats at the tempo now
\* in force.
C25_NoStaleEndTime ==
  (/\ scene = "waiting" /\ IsBeats(local.mode)
   /\ local.called = timer.start_time /\ current_time = local.called)
     => /\ timer.tempo = tempo
        /\ (timer.end_time - timer.start_time) * tempo = local.arg * 60 * Second

\* C28: every wait call with a recognised mode eventually returns, given
\* that the clock keeps advancing and the tempo changes finitely often; its
\* polling loop is left only once current_time >= end_time - one tick
\* period; and a call with an unrecognised mode returns at once and leaves
\* start_time, end_time and is_beat_waiting as they were.
C28_WaitTerminates ==
  /\ (scene # "idle") ~> (scene = "idle")
  /\ [][WaitPoll => current_time >= timer.end_time - MAINLOOP_PERIOD_NS]_vars
  /\ [][\A c \in SceneCalls :
          (WaitConvert(c[1], c[2]) /\ ~Recognized(c[2]))
             => (timer' = timer /\ scene' = "idle")]_vars

\* a beat-relative wait has returned after a tempo change that came while
\* it was waiting
C28_Witness ==
  /\ scene = "idle" /\ IsBeats(local.mode)
  /\ timer.start_time = timer.end_time /\ ~timer.is_beat_waiting
  /\ Len(tempo_map) >= 2
  /\ tempo_map[Len(tempo_map)][1] > local.called
  /\ tempo_map[Len(tempo_map)][1] < timer.end_time
  /\ current_time >= timer.end_time - MAINLOOP_PERIOD_NS

\* C26: appending a tempo-map entry (current_time, new_tempo, cycle_length)
\* leaves get_current_beat() and get_current_cycle() at that instant
\* unchanged, and over clock advances and tempo changes neither value ever
\* decreases.
C26_BeatContinuity ==
  [][(tempo_map' # tempo_map \/ current_time' # current_time) =>
       LET beat   == get_current_beat(tempo_map, current_time)
           beat_  == get_current_beat(tempo_map', current_time')
           cycle  == get_current_cycle(tempo_map, current_time)
           cycle_ == get_current_cycle(tempo_map', current_time')
       IN /\ beat_ >= beat
          /\ cycle_ >= cycle
          /\ \A bpm \in BeatTempos :
                SetTempo(bpm, MaxCycleMap) =>
                  /\ tempo_map' = Append(tempo_map,
                                         <<current_time, bpm, cycle_length>>)
                  /\ beat_ = beat
                  /\ cycle_ = cycle]_vars

\* the tempo went from 150 to 60 at 2.8 s, where the beat read 6, and 0.7
\* seconds later the scene reads beat 7, in cycle 1
C26_Witness ==
  /\ tempo_map = << <<0, 150, cycle_length>>, <<2800, 60, cycle_length>> >>
  /\ current_time = 3500
  /\ current_beat = 7
  /\ get_current_cycle(tempo_map, current_time) = 1

====
